---- MODULE Spec2Model ----
(***************************************************************************)
(* Model of the trust boundary of the meta-analysis gateway:               *)
(*   - the stdio JSON-RPC dispatcher            (src/server.py)            *)
(*   - the secure process executor              (src/utils/secure_subprocess.py) *)
(*   - the secure interpreter wrapper           (src/utils/security_integration.py, *)
(*                                               src/utils/r_sanitizer.py) *)
(*   - the upload sandbox                       (src/utils/file_security.py) *)
(*   - the security logger                      (src/utils/security_logger.py) *)
(*   - the validators and sanitizers            (src/utils/validators.py,  *)
(*                                               src/utils/error_handler.py) *)
(* Strings are sequences of one-character strings, so that pattern checks, *)
(* stripping and path handling are computed on the characters.             *)
(***************************************************************************)
EXTENDS Integers, Sequences, FiniteSets, TLC

VARIABLES
  pc,         \* dispatcher: "start", then "imported" or the position of main()
  nRead,      \* dispatcher: number of input lines consumed from stdin
  req,        \* dispatcher: the parsed request being handled
  resp,       \* dispatcher: the response computed for req, not yet written
  stdout,     \* dispatcher: the response lines written so far
  accepted,   \* dispatcher: line numbers of the lines that parsed as JSON (history)
  created,    \* dispatcher: directories created so far (normalised component lists)
  spawned,    \* dispatcher: argv of every interpreter process started by execute_r
  leftFiles,  \* dispatcher: temp argument files of execute_r that still exist
  uuids,      \* dispatcher: number of session ids generated by uuid4
  er,         \* the call of execute_r made for the request in hand, or by the importer
  xpc,        \* executor: position of the thread calling run or popen
  xcall,      \* executor: the call in hand: api, cmd, what it raised, the argv given to the OS
  procs,      \* executor: the child processes, by pid
  tracked,    \* executor: the pids in self._running_processes
  mon,        \* executor: position of each process's monitor thread
  nextPid,    \* executor: the pid the next child gets
  lock,       \* executor: the holder of self._lock, <<>> when it is free
  rpc,        \* interpreter wrapper: position of secure_r_execution
  rcall,      \* interpreter wrapper: the call in hand: script_path, args, session_id
  safe_args,  \* interpreter wrapper: the prepared arguments, a list of <<key, value>>
  rfiles,     \* interpreter wrapper: the files that exist in the temp directory
  rmade,      \* interpreter wrapper: the temp files created by the call in hand
  rresult,    \* interpreter wrapper: what the call returned or raised
  upc,        \* upload sandbox: position of validate_and_store_file
  ucall,      \* upload sandbox: the call in hand: the uploaded file, original_filename, session_id
  safe_filename, \* upload sandbox: the validated filename of the call in hand
  fs,         \* upload sandbox: the regular files, path -> content
  udirs,      \* upload sandbox: the directories
  fs0,        \* upload sandbox: fs and udirs when the call in hand began (history)
  metadata,   \* upload sandbox: the record built for the call in hand
  uresult,    \* upload sandbox: what the call returned or raised
  quarantined,   \* upload sandbox: every <<path, content>> moved into quarantine (history)
  stored,     \* upload sandbox: the <<storage_path, content>> of every call that returned (history)
  fin,        \* validators and sanitizers: the input string of the functions called
  ret,        \* validators and sanitizers: what each function called returned or raised
  logcalls,   \* security logger: the position and the event of each thread calling log_event
  event_queue,   \* security logger: self.event_queue, events and the None of shutdown
  recent_events, \* security logger: self.recent_events
  buffer,     \* security logger: the batch of the writer thread
  wpc,        \* security logger: the writer thread, "run" or "stopped"
  logfile,    \* security logger: the lines of the log file, one event each
  elapsed,    \* security logger: flush_interval has passed since last_flush
  nEvents,    \* security logger: number of events constructed so far
  returned,   \* security logger: the event ids log_event returned (history)
  enqueued,   \* security logger: the ids of the events put in the queue, in order (history)
  shut,       \* security logger: shutdown(): "none", "joining" or "done"
  atShutdown, \* security logger: the ids that were in enqueued when shutdown was called (history)
  vwrap,      \* validate_inputs: the call of the decorated function in hand
  ewrap       \* with_error_handling: the call in hand and the recovery directory

dvars == <<pc, nRead, req, resp, stdout, accepted, created, spawned, leftFiles, uuids, er>>

xvars == <<xpc, xcall, procs, tracked, mon, nextPid, lock>>

rvars == <<rpc, rcall, safe_args, rfiles, rmade, rresult>>

uvars == <<upc, ucall, safe_filename, fs, udirs, fs0, metadata, uresult, quarantined, stored>>

fvars == <<fin, ret>>

lvars == <<logcalls, event_queue, recent_events, buffer, wpc, logfile, elapsed, nEvents,
           returned, enqueued, shut, atShutdown>>

wvars == <<vwrap, ewrap>>

vars == <<dvars, xvars, rvars, uvars, fvars, lvars, wvars>>

\* what the dispatcher's steps leave alone
DFrame == UNCHANGED <<xvars, rvars, uvars, fvars, lvars, wvars>>

\* what the executor's steps leave alone
XFrame == UNCHANGED <<dvars, rvars, uvars, fvars, lvars, wvars>>

\* what the interpreter wrapper's steps leave alone
RFrame == UNCHANGED <<dvars, xvars, uvars, fvars, lvars, wvars>>

\* what the upload sandbox's steps leave alone
UFrame == UNCHANGED <<dvars, xvars, rvars, fvars, lvars, wvars>>

\* what the calls of the validators and sanitizers leave alone
FFrame == UNCHANGED <<dvars, xvars, rvars, uvars, lvars, wvars>>

\* what the security logger's steps leave alone
LFrame == UNCHANGED <<dvars, xvars, rvars, uvars, fvars, wvars>>

\* what the decorators' steps leave alone
WFrame == UNCHANGED <<dvars, xvars, rvars, uvars, fvars, lvars>>

\* ------------------------------------------------------------------ bounds
MaxLines == 2

MaxArgLen == 2

MaxProcs == 2

\* ------------------------------------------------------------------ characters and strings
Lower == {"a","b","c","d","e","f","g","h","i","j","k","l","m","n","o","p","q","r","s","t","u","v","w","x","y","z"}

Upper == {"A","B","C","D","E","F","G","H","I","J","K","L","M","N","O","P","Q","R","S","T","U","V","W","X","Y","Z"}

Digit == {"0","1","2","3","4","5","6","7","8","9"}

Alnum == Lower \cup Upper \cup Digit

\* the backtick character (a TLA+ string cannot hold it)
BT == "backtick"

\* the characters str.strip() removes
Whitespace == {" ", "\t", "\n", "\r", "\f"}

StartsWith(s, p) == Len(p) <= Len(s) /\ SubSeq(s, 1, Len(p)) = p

EndsWith(s, p) == Len(p) <= Len(s) /\ SubSeq(s, Len(s) - Len(p) + 1, Len(s)) = p

\* Python's  p in s  on strings
Contains(s, p) == \E i \in 1..(Len(s) - Len(p) + 1) : SubSeq(s, i, i + Len(p) - 1) = p

AllIn(s, class) == \A i \in 1..Len(s) : s[i] \in class

\* str.strip()
Strip(s) ==
  LET keep == {i \in 1..Len(s) : s[i] \notin Whitespace}
  IN IF keep = {} THEN <<>>
     ELSE LET lo == CHOOSE i \in keep : \A j \in keep : i <= j
              hi == CHOOSE i \in keep : \A j \in keep : j <= i
          IN SubSeq(s, lo, hi)

\* regex.match of ^[class]{lo,hi}$ : Python's $ also matches before one trailing newline
MatchClass(s, class, lo, hi) ==
  \/ AllIn(s, class) /\ lo <= Len(s) /\ Len(s) <= hi
  \/ /\ Len(s) >= 1 /\ s[Len(s)] = "\n"
     /\ AllIn(SubSeq(s, 1, Len(s) - 1), class)
     /\ lo <= Len(s) - 1 /\ Len(s) - 1 <= hi

\* ------------------------------------------------------------------ JSON values
\* every JSON value is a record [t, v]: t the type, v its characters
JAbsent == [t |-> "absent", v |-> <<>>]

JNull == [t |-> "null", v |-> <<>>]

JStr(s) == [t |-> "str", v |-> s]

JNum(d) == [t |-> "num", v |-> d]

JArr == [t |-> "arr", v |-> <<"1">>]

\* Python truthiness of a decoded JSON value
Truthy(j) == j.t \in {"str", "num", "arr"} /\ j.v # <<>> /\ ~(j.t = "num" /\ j.v = <<"0">>)

\* ------------------------------------------------------------------ validators.py
MaxSessionIdLen == 64

MinSessionIdLen == 8

MaxToolLen == 50

\* InputValidator.PATTERNS, the two the dispatcher uses
PatternMatches(pattern, s) ==
  CASE pattern = "session_id" -> MatchClass(s, Alnum \cup {"-"}, MinSessionIdLen, MaxSessionIdLen)
    [] pattern = "alphanumeric" -> MatchClass(s, Alnum, 1, Len(s) + 1)
    [] pattern = "filename" -> MatchClass(s, Alnum \cup {"-", "_", "."}, 1, Len(s) + 1)
    [] OTHER -> TRUE

\* InputValidator.validate_string: [ok, v]; ok = FALSE stands for ValidationError
validate_string(value, min_length, max_length, pattern) ==
  IF value.t \in {"null", "absent"} THEN [ok |-> FALSE, v |-> <<>>]
  ELSE LET str_value == Strip(value.v)
       IN IF Len(str_value) < min_length THEN [ok |-> FALSE, v |-> str_value]
          ELSE IF max_length > 0 /\ Len(str_value) > max_length THEN [ok |-> FALSE, v |-> str_value]
          ELSE IF ~PatternMatches(pattern, str_value) THEN [ok |-> FALSE, v |-> str_value]
          ELSE [ok |-> TRUE, v |-> str_value]

validate_session_id(session_id) ==
  validate_string(session_id, MinSessionIdLen, MaxSessionIdLen, "session_id")

\* ------------------------------------------------------------------ paths (os.path)
\* the components of a path string, split at "/"
RECURSIVE SplitPath(_)
SplitPath(s) ==
  IF \A i \in 1..Len(s) : s[i] # "/" THEN <<s>>
  ELSE LET k == CHOOSE i \in 1..Len(s) : s[i] = "/" /\ \A j \in 1..(i - 1) : s[j] # "/"
       IN <<SubSeq(s, 1, k - 1)>> \o SplitPath(SubSeq(s, k + 1, Len(s)))

\* os.path.normpath on the components of an absolute path: "" and "." are
\* dropped, ".." removes the component before it (and stays at the root)
RECURSIVE NormParts(_, _)
NormParts(parts, acc) ==
  IF parts = <<>> THEN acc
  ELSE LET h == Head(parts)
       IN IF h = <<>> \/ h = <<".">> THEN NormParts(Tail(parts), acc)
          ELSE IF h = <<".", ".">>
               THEN NormParts(Tail(parts), IF acc = <<>> THEN acc ELSE SubSeq(acc, 1, Len(acc) - 1))
               ELSE NormParts(Tail(parts), Append(acc, h))

\* os.path.join(a, b)
PathJoin(a, b) ==
  IF StartsWith(b, <<"/">>) THEN b
  ELSE IF a = <<>> \/ EndsWith(a, <<"/">>) THEN a \o b
  ELSE a \o <<"/">> \o b

\* os.getcwd() of the dispatcher process
Cwd == <<"/", "w">>

\* os.path.abspath(p) as a list of components
AbsParts(p) == NormParts(SplitPath(PathJoin(Cwd, p)), <<>>)

RECURSIVE JoinParts(_)
JoinParts(parts) ==
  IF parts = <<>> THEN <<>> ELSE <<"/">> \o Head(parts) \o JoinParts(Tail(parts))

\* os.path.abspath(p) as a string
AbsPath(p) == IF AbsParts(p) = <<>> THEN <<"/">> ELSE JoinParts(AbsParts(p))

\* d lies strictly below root (both normalised component lists)
StrictDescendant(d, root) == Len(d) > Len(root) /\ SubSeq(d, 1, Len(root)) = root

\* the directories os.makedirs(p, exist_ok=True) can create: p and its ancestors
MakeDirs(p) == {SubSeq(AbsParts(p), 1, n) : n \in 1..Len(AbsParts(p))}

\* the directories that exist before the dispatcher starts
InitialDirs == MakeDirs(Cwd)

\* os.environ['SESSIONS_DIR'] is unset: call_tool_resp falls back to <cwd>/sessions
sessions_root == PathJoin(Cwd, <<"s">>)

\* execute_r falls back to the working directory itself
allowed_root == AbsPath(Cwd)

\* ------------------------------------------------------------------ shlex
SafeChars == Alnum \cup {"_", "@", "%", "+", "=", ":", ",", ".", "/", "-"}

RECURSIVE EscapeQuotes(_)
EscapeQuotes(s) ==
  IF s = <<>> THEN <<>>
  ELSE (IF Head(s) = "'" THEN <<"'", "\"", "'", "\"", "'">> ELSE <<Head(s)>>) \o EscapeQuotes(Tail(s))

\* shlex.quote
shlex_quote(s) ==
  IF s = <<>> THEN <<"'", "'">>
  ELSE IF AllIn(s, SafeChars) THEN s
  ELSE <<"'">> \o EscapeQuotes(s) \o <<"'">>

\* ------------------------------------------------------------------ server.py: the tools
T_health_check == <<"h","e","a","l","t","h","_","c","h","e","c","k">>

T_initialize_meta_analysis == <<"i","n","i","t","i","a","l","i","z","e","_","m","e","t","a","_","a","n","a","l","y","s","i","s">>

T_upload_study_data == <<"u","p","l","o","a","d","_","s","t","u","d","y","_","d","a","t","a">>

T_perform_meta_analysis == <<"p","e","r","f","o","r","m","_","m","e","t","a","_","a","n","a","l","y","s","i","s">>

T_generate_forest_plot == <<"g","e","n","e","r","a","t","e","_","f","o","r","e","s","t","_","p","l","o","t">>

T_assess_publication_bias == <<"a","s","s","e","s","s","_","p","u","b","l","i","c","a","t","i","o","n","_","b","i","a","s">>

T_generate_report == <<"g","e","n","e","r","a","t","e","_","r","e","p","o","r","t">>

T_get_session_status == <<"g","e","t","_","s","e","s","s","i","o","n","_","s","t","a","t","u","s">>

T_execute_r_code == <<"e","x","e","c","u","t","e","_","r","_","c","o","d","e">>

ALLOWED_TOOLS ==
  {T_health_check,
   T_initialize_meta_analysis,
   T_upload_study_data,
   T_perform_meta_analysis,
   T_generate_forest_plot,
   T_assess_publication_bias,
   T_generate_report,
   T_get_session_status,
   T_execute_r_code}

TOOLS == ALLOWED_TOOLS

RSCRIPT_BIN == <<"R","s","c","r","i","p","t">>

SCRIPTS_ENTRY == <<"/","a","p","p","/","s","c","r","i","p","t","s","/","e","n","t","r","y","/","m","c","p","_","t","o","o","l","s",".","R">>

\* ------------------------------------------------------------------ server.py: execute_r
\* a tool result (the dict execute_r returns); absent keys are JAbsent / <<>>
Result(status, message, detail) ==
  [status |-> status, message |-> message, detail |-> detail,
   session_id |-> JAbsent, session_path |-> <<>>]

NoResult == Result("none", "", <<>>)

\* what the interpreter prints as its one JSON object
RJson == Result("success", "from R", <<>>)

\* the ways a started (or not startable) interpreter can end
Outcomes == {"json", "preamble_json", "nonjson", "nonzero", "timeout", "spawn_fail"}

\* what one call did besides returning: exception escaped, processes started,
\* directories created, argument files still on disk, the args written for R
Effect(result, raised, argv, dirs, files) ==
  [result |-> result, raised |-> raised, argv |-> argv, dirs |-> dirs, files |-> files]

NoEffect(result) == Effect(result, FALSE, <<>>, {}, {})

\* lines 75-124: the stage after validation
execute_r_run(tool, args, session_path, outcome) ==
  LET session_dir == IF session_path # <<>> THEN session_path ELSE Cwd
      tmp_dir == PathJoin(session_dir, <<"t", "m", "p">>)
      args_file == PathJoin(tmp_dir, <<"a", "r", "g", "s", "_">> \o tool \o <<".", "j", "s", "o", "n">>)
      argv == <<RSCRIPT_BIN, <<"-", "-", "v", "a", "n", "i", "l", "l", "a">>, SCRIPTS_ENTRY,
                shlex_quote(tool), shlex_quote(args_file), shlex_quote(session_dir)>>
      dirs == MakeDirs(tmp_dir)
  IN CASE outcome = "spawn_fail" ->
            \* Popen raises outside the try/finally: the argument file stays
            Effect(NoResult, TRUE, <<>>, dirs, {args_file})
       [] outcome = "timeout" ->
            Effect(Result("error", "R script execution timed out", <<>>), FALSE, <<argv>>, dirs, {})
       [] outcome = "nonzero" ->
            Effect(Result("error", "R script failed to execute.", <<>>), FALSE, <<argv>>, dirs, {})
       [] outcome \in {"nonjson", "preamble_json"} ->
            \* json.loads(stdout.strip()) fails on anything before the object
            Effect(Result("error", "Invalid JSON from R", <<>>), FALSE, <<argv>>, dirs, {})
       [] OTHER ->
            Effect(RJson, FALSE, <<argv>>, dirs, {})

\* lines 42-73: the validation stage, then the run
execute_r(tool, args, session_path, outcome) ==
  IF tool.t # "str" THEN
       \* an unhashable value raises in the set lookup; caught by except Exception
       NoEffect(Result("error", "Unexpected validation error", <<>>))
  ELSE IF tool.v \notin ALLOWED_TOOLS THEN
       NoEffect(Result("error", "Invalid tool name", tool.v))
  ELSE IF ~validate_string(tool, 1, MaxToolLen, "alphanumeric").ok THEN
       NoEffect(Result("error", "Validation error", <<>>))
  ELSE IF session_path # <<>> /\ ~StartsWith(AbsPath(session_path), allowed_root) THEN
       NoEffect(Result("error", "Invalid session path", <<>>))
  ELSE IF args.t # "obj" THEN
       NoEffect(Result("error", "Arguments must be a dictionary", <<>>))
  ELSE IF args.session_id.t # "absent" /\ ~validate_session_id(args.session_id).ok THEN
       NoEffect(Result("error", "Invalid session_id", <<>>))
  ELSE execute_r_run(validate_string(tool, 1, MaxToolLen, "alphanumeric").v, args,
                     IF session_path # <<>> THEN AbsPath(session_path) ELSE <<>>, outcome)

\* ------------------------------------------------------------------ server.py: call_tool_resp
HexSeq == <<"0","1","2","3","4","5","6","7","8","9","a","b","c","d","e","f">>

\* uuid.uuid4().hex: 32 hexadecimal characters, the n-th one generated
UuidHex(n) == [i \in 1..31 |-> "0"] \o <<HexSeq[(n % 16) + 1]>>

\* a JSON-RPC response line
Response(id, kind, code, message, result) ==
  [id |-> id, kind |-> kind, code |-> code, message |-> message, result |-> result]

NoResponse == Response("null", "none", 0, "", NoResult)

\* the arguments object of a call: its type and its session_id entry
Args(t, session_id) == [t |-> t, session_id |-> session_id]

EmptyArgs == Args("obj", JAbsent)

\* a faulty variant of InTools: the whitelist lookup is left out
InToolsAnyString(name) == name.t = "str"

\* name in TOOLS, for any decoded JSON value
InTools(name) == name.t = "str" /\ name.v \in TOOLS

\* lines 159-171: the session directory; raised when arguments has no .get or
\* os.path.join refuses a session_id that is no string
SessionSetup(name, arguments, n) ==
  LET session_id == arguments.session_id
      is_init == name.v = T_initialize_meta_analysis
  IN IF arguments.t # "obj" THEN
          [raised |-> TRUE, dirs |-> {}, session_id |-> JAbsent, session_path |-> <<>>,
           arguments |-> arguments, uuids |-> n]
     ELSE IF is_init /\ ~Truthy(session_id) THEN
          [raised |-> FALSE,
           dirs |-> MakeDirs(sessions_root) \cup MakeDirs(PathJoin(sessions_root, UuidHex(n))),
           session_id |-> JStr(UuidHex(n)),
           session_path |-> PathJoin(sessions_root, UuidHex(n)),
           arguments |-> Args("obj", JStr(UuidHex(n))), uuids |-> n + 1]
     ELSE IF Truthy(session_id) /\ session_id.t # "str" THEN
          [raised |-> TRUE, dirs |-> MakeDirs(sessions_root), session_id |-> session_id,
           session_path |-> <<>>, arguments |-> arguments, uuids |-> n]
     ELSE IF Truthy(session_id) THEN
          [raised |-> FALSE,
           dirs |-> MakeDirs(sessions_root) \cup MakeDirs(PathJoin(sessions_root, session_id.v)),
           session_id |-> session_id,
           session_path |-> PathJoin(sessions_root, session_id.v),
           arguments |-> arguments, uuids |-> n]
     ELSE [raised |-> FALSE, dirs |-> MakeDirs(sessions_root), session_id |-> session_id,
           session_path |-> <<>>, arguments |-> arguments, uuids |-> n]

\* lines 178-181: result.setdefault('session_id', ...), result.setdefault('session_path', ...)
SetDefaults(result, session_id, session_path) ==
  [result EXCEPT !.session_id = IF @.t = "absent" THEN session_id ELSE @,
                 !.session_path = IF @ = <<>> THEN session_path ELSE @]

\* call_tool_resp: the response, whether an exception escaped, and what was done
call_tool_resp(request_id, name, arguments, n, outcome) ==
  IF ~InTools(name) THEN
       [resp |-> Response(request_id, "error", -32601, "Unknown tool", NoResult),
        raised |-> FALSE, dirs |-> {}, uuids |-> n,
        called |-> FALSE, session_path |-> <<>>, arguments |-> arguments, run |-> NoEffect(NoResult)]
  ELSE LET st == SessionSetup(name, arguments, n)
           run == execute_r(name, st.arguments, st.session_path, outcome)
           result == IF run.raised THEN Result("error", "exception", <<>>)
                     ELSE IF name.v = T_initialize_meta_analysis
                          THEN SetDefaults(run.result, st.session_id, st.session_path)
                          ELSE run.result
       IN IF st.raised THEN
               [resp |-> NoResponse, raised |-> TRUE, dirs |-> st.dirs, uuids |-> st.uuids,
                called |-> FALSE, session_path |-> <<>>, arguments |-> arguments,
                run |-> NoEffect(NoResult)]
          ELSE [resp |-> Response(request_id, "result", 0, "", result),
                raised |-> FALSE, dirs |-> st.dirs \cup run.dirs, uuids |-> st.uuids,
                called |-> TRUE, session_path |-> st.session_path, arguments |-> st.arguments,
                run |-> run]

\* list_tools_resp
list_tools_resp(request_id) == Response(request_id, "result", 0, "tools", NoResult)

\* ------------------------------------------------------------------ server.py: main
\* the params of a request: absent, no object, or an object with name and arguments
Params(t, name, arguments) == [t |-> t, name |-> name, arguments |-> arguments]

\* a parsed input line: a request object, or a JSON value that is no object
Request(t, method, id, params) == [t |-> t, method |-> method, id |-> id, params |-> params]

NoRequest == Request("none", "", "null", Params("absent", JAbsent, Args("absent", JAbsent)))

SessionIds ==
  {JAbsent, JNum(<<"5">>),
   JStr(<<"s","e","s","s","i","o","n","-","0","0","0","1">>),
   JStr(<<".",".","/","e","v","i","l">>),
   JStr(<<"/","a","b","s">>),
   JStr(<<"s","h","o","r","t">>)}

ArgumentValues ==
  {Args("absent", JAbsent), Args("arr", JAbsent)} \cup {Args("obj", sid) : sid \in SessionIds}

NameValues ==
  {JAbsent, JNum(<<"5">>), JStr(T_health_check), JStr(T_initialize_meta_analysis),
   JStr(<<"d","r","o","p","_","t","a","b","l","e",";"," ","r","m"," ","-","r","f"," ","/">>)}

ParamValues ==
  {Params("absent", JAbsent, Args("absent", JAbsent)),
   Params("arr", JAbsent, Args("absent", JAbsent))}
  \cup {Params("obj", n, a) : n \in NameValues, a \in ArgumentValues}

RequestIds == {"null", "1"}

\* what one line of stdin can decode to
JsonLines ==
  {Request("arr", "", "null", Params("absent", JAbsent, Args("absent", JAbsent)))}
  \cup {Request("obj", m, i, Params("absent", JAbsent, Args("absent", JAbsent))) :
          m \in {"health", "tools/list", "absent", "bogus"}, i \in RequestIds}
  \cup {Request("obj", "tools/call", i, p) : i \in RequestIds, p \in ParamValues}

\* the record of one execute_r call
Call(tool, args, session_path, outcome, out) ==
  [tool |-> tool, args |-> args, session_path |-> session_path, outcome |-> outcome, out |-> out]

NoCall == Call(JAbsent, Args("absent", JAbsent), <<>>, "", NoEffect(NoResult))

InitDispatcher ==
  /\ pc = "start"
  /\ nRead = 0
  /\ req = NoRequest
  /\ resp = NoResponse
  /\ stdout = <<>>
  /\ accepted = <<>>
  /\ created = {}
  /\ spawned = <<>>
  /\ leftFiles = {}
  /\ uuids = 0
  /\ er = NoCall

\* if __name__ == '__main__': main()
MainStart ==
  /\ pc = "start"
  /\ pc' = "read"
  /\ UNCHANGED <<nRead, req, resp, stdout, accepted, created, spawned, leftFiles, uuids, er>>
  /\ DFrame

\* for line in sys.stdin: an empty line or a line that is not JSON is skipped
MainSkipLine ==
  /\ pc = "read"
  /\ nRead < MaxLines
  /\ nRead' = nRead + 1
  /\ UNCHANGED <<pc, req, resp, stdout, accepted, created, spawned, leftFiles, uuids, er>>
  /\ DFrame

\* for line in sys.stdin: req = json.loads(line)
MainReadLine ==
  /\ pc = "read"
  /\ nRead < MaxLines
  /\ \E line \in JsonLines :
       /\ req' = line
       /\ nRead' = nRead + 1
       /\ accepted' = Append(accepted, [line |-> nRead + 1, id |-> line.id])
  /\ pc' = "dispatch"
  /\ UNCHANGED <<resp, stdout, created, spawned, leftFiles, uuids, er>>
  /\ DFrame

\* lines 205-231 for a request that is answered without a tool call
MainPlain ==
  /\ pc = "dispatch"
  /\ req.t = "obj"
  /\ req.method # "tools/call"
  /\ resp' = CASE req.method = "health" -> Response(req.id, "result", 0, "healthy", NoResult)
               [] req.method = "tools/list" -> list_tools_resp(req.id)
               [] OTHER -> Response(req.id, "error", -32601, "Method not found", NoResult)
  /\ pc' = "write"
  /\ UNCHANGED <<nRead, req, stdout, accepted, created, spawned, leftFiles, uuids, er>>
  /\ DFrame

\* the name and arguments main hands to call_tool_resp (lines 222-224)
CallName(r) == IF r.params.t = "obj" THEN r.params.name ELSE JAbsent

CallArguments(r) ==
  IF r.params.t = "obj" /\ r.params.arguments.t \in {"arr", "obj"}
  THEN r.params.arguments ELSE EmptyArgs

\* lines 221-225: tools/call, with everything call_tool_resp and execute_r do
MainCallTool ==
  /\ pc = "dispatch"
  /\ req.t = "obj"
  /\ req.method = "tools/call"
  /\ req.params.t # "arr"
  /\ \E outcome \in Outcomes :
       \E c \in {call_tool_resp(req.id, CallName(req), CallArguments(req), uuids, outcome)} :
          /\ ~c.raised
          /\ resp' = c.resp
          /\ created' = created \cup (c.dirs \ InitialDirs)
          /\ spawned' = spawned \o c.run.argv
          /\ leftFiles' = leftFiles \cup c.run.files
          /\ uuids' = c.uuids
          /\ er' = IF c.called THEN Call(CallName(req), c.arguments, c.session_path, outcome, c.run)
                   ELSE er
  /\ pc' = "write"
  /\ UNCHANGED <<nRead, req, stdout, accepted>>
  /\ DFrame

\* an exception leaves main: req.get on a value that is no object, params.get on
\* params that are no object, arguments.get or os.path.join inside call_tool_resp
MainCrash ==
  /\ pc = "dispatch"
  /\ \E c \in {call_tool_resp(req.id, CallName(req), CallArguments(req), uuids, "json")} :
        /\ \/ req.t # "obj"
           \/ req.method = "tools/call" /\ req.params.t = "arr"
           \/ req.method = "tools/call" /\ req.params.t # "arr" /\ c.raised
        /\ created' = IF req.t = "obj" /\ req.method = "tools/call" /\ req.params.t # "arr"
                      THEN created \cup (c.dirs \ InitialDirs) ELSE created
  /\ pc' = "crashed"
  /\ UNCHANGED <<nRead, req, resp, stdout, accepted, spawned, leftFiles, uuids, er>>
  /\ DFrame

\* a faulty variant of WriteLine: the line is put before the earlier ones
WriteLineFirst(out, r) == <<r>> \o out

\* sys.stdout.write(json.dumps(resp) + '\n'); sys.stdout.flush()
WriteLine(out, r) == Append(out, r)

MainWrite ==
  /\ pc = "write"
  /\ stdout' = WriteLine(stdout, resp)
  /\ resp' = NoResponse
  /\ req' = NoRequest
  /\ er' = NoCall
  /\ pc' = "read"
  /\ UNCHANGED <<nRead, accepted, created, spawned, leftFiles, uuids>>
  /\ DFrame

\* stdin is closed: the for loop ends
MainEof ==
  /\ pc = "read"
  /\ pc' = "eof"
  /\ UNCHANGED <<nRead, req, resp, stdout, accepted, created, spawned, leftFiles, uuids, er>>
  /\ DFrame

\* server.py imported instead of run: execute_r called directly (as the tests do)
DirectTools == {v \in NameValues : v.t # "absent"}

ExecuteRDirect ==
  /\ pc \in {"start", "imported"}
  /\ pc' = "imported"
  /\ \E tool \in DirectTools, args \in {a \in ArgumentValues : a.t # "absent"},
        outcome \in Outcomes :
       \E run \in {execute_r(tool, args, <<>>, outcome)} :
          /\ ~run.raised
          /\ er' = Call(tool, args, <<>>, outcome, run)
          /\ created' = created \cup (run.dirs \ InitialDirs)
          /\ spawned' = spawned \o run.argv
          /\ leftFiles' = leftFiles \cup run.files
  /\ UNCHANGED <<nRead, req, resp, stdout, accepted, uuids>>
  /\ DFrame

NextDispatcher ==
  \/ MainStart
  \/ MainSkipLine
  \/ MainReadLine
  \/ MainPlain
  \/ MainCallTool
  \/ MainCrash
  \/ MainWrite
  \/ MainEof
  \/ ExecuteRDirect

\* ================================================================== claims: dispatcher
SessionsRootParts == AbsParts(sessions_root)

NotWhitelisted(name) == ~(name.t = "str" /\ name.v \in ALLOWED_TOOLS)

\* the step of main that answers a tools/call whose name is not whitelisted
C1_RejectStep ==
  (/\ pc = "dispatch" /\ req.t = "obj" /\ req.method = "tools/call" /\ req.params.t # "arr"
   /\ NotWhitelisted(CallName(req)))
  => /\ pc' = "write"
     /\ resp'.kind = "error" /\ resp'.code = -32601
     /\ spawned' = spawned /\ er' = er /\ leftFiles' = leftFiles

\* execute_r called directly with a string that is not whitelisted
C1_DirectReject ==
  (pc = "imported" /\ er.tool.t = "str" /\ er.tool.v \notin ALLOWED_TOOLS)
  => /\ er.out.result.status = "error"
     /\ er.out.result.message = "Invalid tool name"
     /\ er.out.result.detail = er.tool.v
     /\ er.out.argv = <<>>

\* C1: a tools/call whose tool name is not in ALLOWED_TOOLS is answered with error
\* -32601 and starts no interpreter; execute_r called directly with such a name
\* returns a status "error" result naming the tool, and starts none either.
C1_UnknownToolRejected == [][C1_RejectStep]_vars /\ []C1_DirectReject

C1_Witness ==
  /\ pc = "write" /\ req.method = "tools/call" /\ req.params.t = "obj"
  /\ req.params.name.t = "str" /\ req.params.name.v \notin ALLOWED_TOOLS
  /\ resp.code = -32601 /\ spawned = <<>>

\* C2: execute_r, called with a whitelisted tool name, an arguments object and an
\* absent or pattern-valid session_id, passes validation and starts the interpreter
\* exactly once with [interpreter, --vanilla, script, tool, args file, session dir];
\* the interpreter's JSON object is the result.
C2_WhitelistedToolRuns ==
  (/\ er.tool.t = "str" /\ er.tool.v \in ALLOWED_TOOLS
   /\ er.args.t = "obj"
   /\ (er.args.session_id.t = "absent" \/ validate_session_id(er.args.session_id).ok)
   /\ er.outcome # "spawn_fail")
  => /\ Len(er.out.argv) = 1
     /\ SubSeq(er.out.argv[1], 1, 4) =
          <<RSCRIPT_BIN, <<"-", "-", "v", "a", "n", "i", "l", "l", "a">>, SCRIPTS_ENTRY, er.tool.v>>
     /\ Len(er.out.argv[1]) = 6
     /\ (er.outcome = "json" => er.out.result.status = "success")

\* C3: whatever lines arrive, no exception leaves the main loop.
C3_NeverCrashes == pc # "crashed"

C5_DirsInsideRoot ==
  /\ \A d \in created : d = SessionsRootParts \/ StrictDescendant(d, SessionsRootParts)
  /\ \A i \in 1..Len(spawned) : StrictDescendant(AbsParts(spawned[i][6]), SessionsRootParts)

\* ================================================================== secure_subprocess.py
\* ALLOWED_COMMANDS (the keys; the argument prefixes only produce a warning)
ALLOWED_COMMANDS ==
  {<<"p","y","t","h","o","n">>,
   <<"p","y","t","h","o","n","3">>,
   <<"R","s","c","r","i","p","t">>,
   <<"n","o","d","e">>,
   <<"n","p","m">>,
   <<"n","p","x">>}

DANGEROUS_PATTERNS ==
  {<<";">>,
   <<"&","&">>,
   <<"|","|">>,
   <<"|">>,
   <<">">>,
   <<"<">>,
   <<">",">">>,
   <<"<","<">>,
   <<BT>>,
   <<"$">>,
   <<"$","(">>,
   <<"$","{">>,
   <<"\\","n">>,
   <<"\\","r">>,
   <<"\\","t">>,
   <<".",".","/">>,
   <<".",".","\\">>,
   <<"r","m"," ">>,
   <<"d","e","l"," ">>,
   <<"f","o","r","m","a","t">>,
   <<"e","v","a","l">>,
   <<"e","x","e","c">>,
   <<"s","y","s","t","e","m">>}

\* os.path.basename
Basename(s) == SplitPath(s)[Len(SplitPath(s))]

\* str(Path(s)): empty and "." components dropped, a leading "/" kept
RECURSIVE JoinWith(_)
JoinWith(parts) ==
  IF parts = <<>> THEN <<>>
  ELSE IF Len(parts) = 1 THEN Head(parts)
  ELSE Head(parts) \o <<"/">> \o JoinWith(Tail(parts))

PathParts(s) == SelectSeq(SplitPath(s), LAMBDA c : c # <<>> /\ c # <<".">>)

PathStr(s) ==
  IF StartsWith(s, <<"/">>) THEN <<"/">> \o JoinWith(PathParts(s))
  ELSE IF PathParts(s) = <<>> THEN <<".">>
  ELSE JoinWith(PathParts(s))

\* validate_command: TRUE when it raises SecureSubprocessError
validate_command(cmd) ==
  \/ cmd = <<>>
  \/ Basename(cmd[1]) \notin ALLOWED_COMMANDS
  \/ \E i \in 1..Len(cmd) : \E pattern \in DANGEROUS_PATTERNS : Contains(cmd[i], pattern)

\* sanitize_arguments, one argument. The SecureSubprocessError raised for a ".."
\* component is raised inside try ... except Exception: pass, which swallows it, so
\* the argument keeps the quoting it got before the path check.
sanitize_argument(arg) ==
  LET arg_str == Strip(arg)
      quoted == shlex_quote(arg_str)
  IN IF Contains(arg_str, <<"/">>) \/ Contains(arg_str, <<"\\">>)
     THEN IF \E i \in 1..Len(PathParts(arg_str)) : PathParts(arg_str)[i] = <<".", ".">>
          THEN quoted
          ELSE shlex_quote(PathStr(arg_str))
     ELSE quoted

sanitize_arguments(args) == [i \in 1..Len(args) |-> sanitize_argument(args[i])]

\* lines 141-150 and 215-224, shared by run and popen: validate, then sanitize
\* everything after the executable
PrepareCommand(cmd) ==
  IF validate_command(cmd) THEN [raised |-> TRUE, argv |-> <<>>]
  ELSE [raised |-> FALSE, argv |-> <<cmd[1]>> \o sanitize_arguments(Tail(cmd))]

\* ------------------------------------------------------------------ the executor's state
Pids == 1..MaxProcs

NoProc == [via |-> "none", st |-> "none", late |-> FALSE, term |-> FALSE, kill |-> FALSE]

NewProc(via) == [via |-> via, st |-> "running", late |-> FALSE, term |-> FALSE, kill |-> FALSE]

XCall(api, cmd, error, argv) == [api |-> api, cmd |-> cmd, error |-> error, argv |-> argv]

NoXCall == XCall("none", <<>>, "", <<>>)

InitExec ==
  /\ xpc = "idle"
  /\ xcall = NoXCall
  /\ procs = [p \in Pids |-> NoProc]
  /\ tracked = {}
  /\ mon = [p \in Pids |-> "none"]
  /\ nextPid = 1
  /\ lock = <<>>

\* ------------------------------------------------------------------ the executor's calls
ArgAlphabet == {"a", ";", "&", "|", BT, "$", "(", ".", "/"}

\* the arguments tried: every string over ArgAlphabet up to MaxArgLen, and two paths
ArgStrings ==
  UNION {[1..n -> ArgAlphabet] : n \in 1..MaxArgLen}
  \cup {<<".", ".", "/", "a">>, <<"a", "/", ".", ".">>}

Executables == {<<"R","s","c","r","i","p","t">>, <<"b","a","s","h">>}

Vanilla == <<"-", "-", "v", "a", "n", "i", "l", "l", "a">>

Commands == {<<e, Vanilla, a>> : e \in Executables, a \in ArgStrings}

\* the two commands the lifecycle of a child is followed with
FewCommands == {<<e, Vanilla, <<"a">>>> : e \in Executables}

\* run, lines 141-173: validate, sanitize, subprocess.run starts the child
RunCall(cmds) ==
  /\ xpc = "idle"
  /\ nextPid <= MaxProcs
  /\ \E cmd \in cmds :
       \E prep \in {PrepareCommand(cmd)} :
          IF prep.raised
          THEN /\ xcall' = XCall("run", cmd, "SecureSubprocessError", <<>>)
               /\ xpc' = "raised"
               /\ UNCHANGED <<procs, nextPid>>
          ELSE /\ xcall' = XCall("run", cmd, "", prep.argv)
               /\ procs' = [procs EXCEPT ![nextPid] = NewProc("run")]
               /\ nextPid' = nextPid + 1
               /\ xpc' = "run_wait"
  /\ UNCHANGED <<tracked, mon, lock>>
  /\ XFrame

\* the pid of the child of the call in hand
CurPid == nextPid - 1

\* run, lines 175-185: the child has exited before the timeout
RunReturn ==
  /\ xpc = "run_wait"
  /\ procs[CurPid].st = "exited"
  /\ \E outcome \in {"ok", "too_large", "nonzero"} :
       /\ xcall' = [xcall EXCEPT !.error =
                      CASE outcome = "too_large" -> "SecureSubprocessError"
                        [] outcome = "nonzero" -> "CalledProcessError"
                        [] OTHER -> ""]
       /\ xpc' = IF outcome = "ok" THEN "returned" ELSE "raised"
  /\ UNCHANGED <<procs, tracked, mon, nextPid, lock>>
  /\ XFrame

\* run, lines 187-189: subprocess.run kills and reaps the child at the timeout and
\* raises TimeoutExpired, which run turns into SecureSubprocessError
RunTimeout ==
  /\ xpc = "run_wait"
  /\ procs[CurPid].st = "running"
  /\ procs[CurPid].late
  /\ procs' = [procs EXCEPT ![CurPid].kill = TRUE, ![CurPid].st = "exited"]
  /\ xcall' = [xcall EXCEPT !.error = "SecureSubprocessError: timed out"]
  /\ xpc' = "raised"
  /\ UNCHANGED <<tracked, mon, nextPid, lock>>
  /\ XFrame

\* popen, lines 215-247: validate, sanitize, subprocess.Popen starts the child
PopenCall(cmds) ==
  /\ xpc = "idle"
  /\ nextPid <= MaxProcs
  /\ \E cmd \in cmds :
       \E prep \in {PrepareCommand(cmd)} :
          IF prep.raised
          THEN /\ xcall' = XCall("popen", cmd, "SecureSubprocessError", <<>>)
               /\ xpc' = "raised"
               /\ UNCHANGED <<procs, nextPid>>
          ELSE /\ xcall' = XCall("popen", cmd, "", prep.argv)
               /\ procs' = [procs EXCEPT ![nextPid] = NewProc("popen")]
               /\ nextPid' = nextPid + 1
               /\ xpc' = "popen_track"
  /\ UNCHANGED <<tracked, mon, lock>>
  /\ XFrame

\* popen, line 250: with self._lock, the lock is acquired
PopenLock ==
  /\ xpc = "popen_track"
  /\ lock = <<>>
  /\ lock' = <<"popen">>
  /\ xpc' = "popen_locked"
  /\ UNCHANGED <<xcall, procs, tracked, mon, nextPid>>
  /\ XFrame

\* popen, lines 251-255: the entry is stored and the lock released
PopenTrack ==
  /\ xpc = "popen_locked"
  /\ tracked' = tracked \cup {CurPid}
  /\ lock' = <<>>
  /\ xpc' = "popen_thread"
  /\ UNCHANGED <<xcall, procs, mon, nextPid>>
  /\ XFrame

\* popen, lines 257-260: the monitor thread is started and the handle returned
PopenThread ==
  /\ xpc = "popen_thread"
  /\ mon' = [mon EXCEPT ![CurPid] = "poll"]
  /\ xpc' = "returned"
  /\ UNCHANGED <<xcall, procs, tracked, nextPid, lock>>
  /\ XFrame

\* the caller has its result or its exception
CallDone ==
  /\ xpc \in {"raised", "returned"}
  /\ xpc' = "idle"
  /\ xcall' = NoXCall
  /\ UNCHANGED <<procs, tracked, mon, nextPid, lock>>
  /\ XFrame

\* ------------------------------------------------------------------ children and monitors
\* a child exits on its own, or in answer to SIGTERM
ProcExit(p) ==
  /\ procs[p].st = "running"
  /\ procs' = [procs EXCEPT ![p].st = "exited"]
  /\ UNCHANGED <<xpc, xcall, tracked, mon, nextPid, lock>>
  /\ XFrame

\* SIGKILL cannot be ignored
ProcDie(p) ==
  /\ procs[p].st = "running"
  /\ procs[p].kill
  /\ procs' = [procs EXCEPT ![p].st = "exited"]
  /\ UNCHANGED <<xpc, xcall, tracked, mon, nextPid, lock>>
  /\ XFrame

\* self.timeout seconds have passed on the clock that watches child p
TimeoutElapses(p) ==
  /\ procs[p].st = "running"
  /\ ~procs[p].late
  /\ procs[p].via = "popen" => mon[p] = "poll"
  /\ procs' = [procs EXCEPT ![p].late = TRUE]
  /\ UNCHANGED <<xpc, xcall, tracked, mon, nextPid, lock>>
  /\ XFrame

\* a faulty variant of MonTimeout: the grace wait is skipped, SIGKILL goes out at once
MonTimeoutKill(p) ==
  /\ procs' = [procs EXCEPT ![p].kill = TRUE]
  /\ mon' = [mon EXCEPT ![p] = "cleanup"]

\* _monitor_process, lines 267-269: proc.terminate()
MonTimeout(p) ==
  /\ procs' = [procs EXCEPT ![p].term = TRUE]
  /\ mon' = [mon EXCEPT ![p] = "grace"]

\* _monitor_process, lines 266-275: one turn of the polling loop that ends it
MonPoll(p) ==
  /\ mon[p] = "poll"
  /\ procs[p].st = "exited" \/ procs[p].late
  /\ IF procs[p].st = "exited"
     THEN mon' = [mon EXCEPT ![p] = "cleanup"] /\ UNCHANGED procs
     ELSE MonTimeout(p)
  /\ UNCHANGED <<xpc, xcall, tracked, nextPid, lock>>
  /\ XFrame

\* a faulty variant of MonGrace: the monitor returns after the grace wait
\* instead of leaving the loop, and the clean-up is skipped
MonGraceReturn(p) ==
  /\ mon[p] = "grace"
  /\ IF procs[p].st = "exited"
     THEN UNCHANGED procs
     ELSE procs' = [procs EXCEPT ![p].kill = TRUE]
  /\ mon' = [mon EXCEPT ![p] = "done"]
  /\ UNCHANGED <<xpc, xcall, tracked, nextPid, lock>>
  /\ XFrame

\* _monitor_process, lines 270-274: proc.wait(timeout=5), then proc.kill() if the
\* child is still there
MonGrace(p) ==
  /\ mon[p] = "grace"
  /\ IF procs[p].st = "exited"
     THEN UNCHANGED procs
     ELSE procs' = [procs EXCEPT ![p].kill = TRUE]
  /\ mon' = [mon EXCEPT ![p] = "cleanup"]
  /\ UNCHANGED <<xpc, xcall, tracked, nextPid, lock>>
  /\ XFrame

\* _monitor_process, line 278: with self._lock, the lock is acquired
MonLock(p) ==
  /\ mon[p] = "cleanup"
  /\ lock = <<>>
  /\ lock' = <<"monitor", p>>
  /\ mon' = [mon EXCEPT ![p] = "locked"]
  /\ UNCHANGED <<xpc, xcall, procs, tracked, nextPid>>
  /\ XFrame

\* _monitor_process, line 279: self._running_processes.pop(pid, None), and the
\* lock is released
MonCleanup(p) ==
  /\ mon[p] = "locked"
  /\ tracked' = tracked \ {p}
  /\ lock' = <<>>
  /\ mon' = [mon EXCEPT ![p] = "done"]
  /\ UNCHANGED <<xpc, xcall, procs, nextPid>>
  /\ XFrame

NextExec(cmds) ==
  \/ RunCall(cmds)
  \/ RunReturn
  \/ RunTimeout
  \/ PopenCall(cmds)
  \/ PopenLock
  \/ PopenTrack
  \/ PopenThread
  \/ CallDone
  \/ \E p \in Pids : ProcExit(p)
  \/ \E p \in Pids : ProcDie(p)
  \/ \E p \in Pids : TimeoutElapses(p)
  \/ \E p \in Pids : MonPoll(p)
  \/ \E p \in Pids : MonGrace(p)
  \/ \E p \in Pids : MonLock(p)
  \/ \E p \in Pids : MonCleanup(p)

\* what the scheduler and the OS guarantee: a thread that can step does, and a
\* killed child dies
FairExec ==
  /\ WF_vars(RunReturn) /\ WF_vars(RunTimeout)
  /\ WF_vars(PopenLock) /\ WF_vars(PopenTrack) /\ WF_vars(PopenThread)
  /\ \A p \in Pids : WF_vars(ProcDie(p)) /\ WF_vars(MonPoll(p))
                     /\ WF_vars(MonGrace(p)) /\ WF_vars(MonLock(p)) /\ WF_vars(MonCleanup(p))

\* ================================================================== claims: executor
\* the tokens the claim names
C6_Tokens == {<<";">>, <<"&", "&">>, <<"|", "|">>, <<BT>>, <<"$", "(">>, <<".", ".">>}

\* C6: a command with an argument containing ; && || a backtick $( or .. makes run
\* and popen raise SecureSubprocessError, and nothing is handed to the OS.
C6_DangerousArgRaises ==
  (/\ xcall.api \in {"run", "popen"}
   /\ \E i \in 1..Len(xcall.cmd) : \E t \in C6_Tokens : Contains(xcall.cmd[i], t))
  => (xcall.error = "SecureSubprocessError" /\ xcall.argv = <<>>)

\* a child still running when its timeout has elapsed is stopped in the end
C7_Stopped ==
  \A p \in Pids : (procs[p].st = "running" /\ procs[p].late) ~> (procs[p].st = "exited")

\* the monitor sends SIGKILL only after SIGTERM, from its grace wait, to a child
\* that is still running
C7_TermBeforeKill ==
  [][\A p \in Pids :
       (procs[p].via = "popen" /\ ~procs[p].kill /\ procs'[p].kill)
       => (procs[p].term /\ mon[p] = "grace" /\ procs[p].st = "running")]_vars

\* run leaves its wait on a timed-out child only with the child killed and the
\* timeout error raised
C7_RunTimeoutError ==
  [][(/\ xpc = "run_wait" /\ procs[CurPid].st = "running" /\ procs[CurPid].late
      /\ xpc' # "run_wait")
     => (/\ procs'[CurPid].st = "exited" /\ procs'[CurPid].kill
         /\ xcall'.error = "SecureSubprocessError: timed out" /\ xpc' = "raised")]_vars

\* run does not wait forever on a timed-out child
C7_RunReturns ==
  (xpc = "run_wait" /\ procs[CurPid].late) ~> (xpc # "run_wait")

DangerousCharsKeepQuotes ==
  {BT, "$", "@", "!", "#", "%", "^", "&", "*", "(", ")", "[", "]", "{", "}", "|", ";",
   ":", "<", ">", "?", "\n", "\r", "\t"}

DangerousChars ==
  {BT, "$", "@", "!", "#", "%", "^", "&", "*", "(", ")", "[", "]", "{", "}", "|", "\\", ";",
   ":", "\"", "'", "<", ">", "?", "\n", "\r", "\t"}

MaxSanitizedLen == 1000

sanitize_for_r(value) ==
  LET sanitized == SelectSeq(value, LAMBDA c : c \notin DangerousChars)
  IN Strip(IF Len(sanitized) > MaxSanitizedLen THEN SubSeq(sanitized, 1, MaxSanitizedLen)
           ELSE sanitized)

\* ================================================================== r_sanitizer.py
\* str.lower(), one character
LowerChar(c) ==
  CASE c = "A" -> "a"
    [] c = "B" -> "b"
    [] c = "C" -> "c"
    [] c = "D" -> "d"
    [] c = "E" -> "e"
    [] c = "F" -> "f"
    [] c = "G" -> "g"
    [] c = "H" -> "h"
    [] c = "I" -> "i"
    [] c = "J" -> "j"
    [] c = "K" -> "k"
    [] c = "L" -> "l"
    [] c = "M" -> "m"
    [] c = "N" -> "n"
    [] c = "O" -> "o"
    [] c = "P" -> "p"
    [] c = "Q" -> "q"
    [] c = "R" -> "r"
    [] c = "S" -> "s"
    [] c = "T" -> "t"
    [] c = "U" -> "u"
    [] c = "V" -> "v"
    [] c = "W" -> "w"
    [] c = "X" -> "x"
    [] c = "Y" -> "y"
    [] c = "Z" -> "z"
    [] OTHER -> c

\* str.lower()
ToLower(s) == [i \in 1..Len(s) |-> LowerChar(s[i])]

DANGEROUS_R_FUNCTIONS ==
  {<<"s", "y", "s", "t", "e", "m">>,
   <<"s", "y", "s", "t", "e", "m", "2">>,
   <<"s", "h", "e", "l", "l">>,
   <<"e", "v", "a", "l">>,
   <<"p", "a", "r", "s", "e">>,
   <<"s", "o", "u", "r", "c", "e">>,
   <<"l", "i", "b", "r", "a", "r", "y">>,
   <<"r", "e", "q", "u", "i", "r", "e">>,
   <<"i", "n", "s", "t", "a", "l", "l", ".", "p", "a", "c", "k", "a", "g", "e", "s">>,
   <<"d", "o", "w", "n", "l", "o", "a", "d", ".", "f", "i", "l", "e">>,
   <<"f", "i", "l", "e", ".", "r", "e", "m", "o", "v", "e">>,
   <<"u", "n", "l", "i", "n", "k">>,
   <<"s", "e", "t", "w", "d">>,
   <<"S", "y", "s", ".", "s", "e", "t", "e", "n", "v">>,
   <<"r", "e", "a", "d", "L", "i", "n", "e", "s">>,
   <<"w", "r", "i", "t", "e", "L", "i", "n", "e", "s">>,
   <<"s", "a", "v", "e">>,
   <<"l", "o", "a", "d">>,
   <<"s", "a", "v", "e", "R", "D", "S">>,
   <<"r", "e", "a", "d", "R", "D", "S">>,
   <<"d", "o", ".", "c", "a", "l", "l">>,
   <<"g", "e", "t">>,
   <<"a", "s", "s", "i", "g", "n">>,
   <<"a", "t", "t", "a", "c", "h">>,
   <<"d", "e", "t", "a", "c", "h">>,
   <<"o", "p", "t", "i", "o", "n", "s">>,
   <<"p", "a", "r">>,
   <<"d", "e", "v", ".", "o", "f", "f">>,
   <<"s", "i", "n", "k">>}

\* the characters of \w and of \s in a regular expression
WordChars == Alnum \cup {"_"}

\* re.search(r'\b(system|shell|eval|parse|source)\s*\(', s, re.IGNORECASE)
CallPattern(s) ==
  \E w \in {<<"s", "y", "s", "t", "e", "m">>, <<"s", "h", "e", "l", "l">>, <<"e", "v", "a", "l">>, <<"p", "a", "r", "s", "e">>, <<"s", "o", "u", "r", "c", "e">>} :
    \E j \in {k \in 1..Len(s) : s[k] = "("} : \E i \in 1..(j - Len(w)) :
      /\ SubSeq(ToLower(s), i, i + Len(w) - 1) = w
      /\ (i = 1 \/ s[i - 1] \notin WordChars)
      /\ \A k \in (i + Len(w))..(j - 1) : s[k] \in Whitespace

\* re.search of a backtick, one or more other characters, a backtick
BacktickPattern(s) ==
  \E i \in {k \in 1..Len(s) : s[k] = BT} : \E j \in (i + 2)..Len(s) :
    /\ s[j] = BT
    /\ \A k \in (i + 1)..(j - 1) : s[k] # BT

\* re.search(r'(^|\s)!\s*[a-zA-Z]', s)
ShellEscapePattern(s) ==
  \E i \in {k \in 1..Len(s) : s[k] = "!"} : \E j \in (i + 1)..Len(s) :
    /\ (i = 1 \/ s[i - 1] \in Whitespace)
    /\ \A k \in (i + 1)..(j - 1) : s[k] \in Whitespace
    /\ s[j] \in Lower \cup Upper

\* some pattern of R_CODE_PATTERNS is found in s
R_CODE_PATTERNS(s) ==
  \/ CallPattern(s)
  \/ BacktickPattern(s)
  \/ Contains(s, <<"$", "(">>)
  \/ Contains(s, <<"<", "<", "-">>)
  \/ Contains(s, <<"-", ">", ">">>)
  \/ Contains(s, <<".", ".", ".">>)
  \/ Contains(s, <<":", ":", ":">>)
  \/ ShellEscapePattern(s)

\* str.replace of each double and single quote by a backslash and the quote
RECURSIVE EscapeRQuotes(_)
EscapeRQuotes(s) ==
  IF s = <<>> THEN <<>>
  ELSE IF Len(s) = 1 THEN (IF s[1] \in {"\"", "'"} THEN <<"\\", s[1]>> ELSE s)
  ELSE LET half == Len(s) \div 2
       IN EscapeRQuotes(SubSeq(s, 1, half)) \o EscapeRQuotes(SubSeq(s, half + 1, Len(s)))

\* RScriptSanitizer.sanitize_string: [ok, v]; ok = FALSE stands for RSanitizerError
sanitize_string(value) ==
  IF value = <<>> THEN [ok |-> TRUE, v |-> <<>>]
  ELSE LET sanitized == sanitize_for_r(value)
           lower_value == ToLower(sanitized)
       IN IF \E func \in DANGEROUS_R_FUNCTIONS : Contains(lower_value, func)
          THEN [ok |-> FALSE, v |-> <<>>]
          ELSE IF R_CODE_PATTERNS(sanitized) THEN [ok |-> FALSE, v |-> <<>>]
          ELSE [ok |-> TRUE, v |-> EscapeRQuotes(sanitized)]

MaxIdentifierLen == 100

\* RScriptSanitizer.sanitize_identifier
sanitize_identifier(name) ==
  LET replaced == [i \in 1..Len(name) |->
                     IF name[i] \in Alnum \cup {".", "_"} THEN name[i] ELSE "_"]
      starts == \/ Len(replaced) >= 1 /\ replaced[1] \in Lower \cup Upper
                \/ Len(replaced) >= 2 /\ replaced[1] = "." /\ replaced[2] \in Lower \cup Upper
      sanitized == IF starts THEN replaced ELSE <<"X">> \o replaced
  IN IF Len(sanitized) > MaxIdentifierLen THEN SubSeq(sanitized, 1, MaxIdentifierLen)
     ELSE sanitized

\* ------------------------------------------------------------------ r_sanitizer.py: temp files
MaxArgs == 2

\* tempfile.gettempdir()
temp_dir == <<"/", "t">>

\* the files and directories on disk besides the temp files
ScriptFiles == {<<"/", "w", "/", "s", "c", "r", "i", "p", "t", "s", "/", "m", ".", "R">>, <<"/", "w", "/", "s", "c", "r", "i", "p", "t", "s", "/", "m", ".", "p", "y">>}

ScriptDirs == {<<"/", "w">>, <<"/", "w", "/", "s", "c", "r", "i", "p", "t", "s">>, temp_dir}

\* os.path.exists, os.path.isfile
PathExists(p, files) == p \in files \cup ScriptFiles \cup ScriptDirs

IsFile(p, files) == p \in files \cup ScriptFiles

DigitChar(n) == <<"0", "1", "2", "3", "4", "5", "6", "7", "8", "9">>[n + 1]

TempName(n) == temp_dir \o <<"/", "t", "m", "p">> \o <<DigitChar(n)>> \o <<".", "j", "s", "o", "n">>

\* tempfile.mkstemp(suffix='.json', dir=temp_dir): a name no file has; the random
\* part of the name is the least number not in use
mkstemp(files) ==
  TempName(CHOOSE n \in 0..Cardinality(files) :
             TempName(n) \notin files /\ \A m \in 0..(n - 1) : TempName(m) \in files)

\* the values of an argument: a number, a string, None, a list [leaf], a dict
\* {"x": leaf} with a string leaf, and an object of another type
RNum == [t |-> "num", v |-> <<>>]

RList(leaf) == [t |-> "list", v |-> leaf]

RDict(leaf) == [t |-> "dict", v |-> leaf]

ROther == [t |-> "other", v |-> <<>>]

\* _sanitize_json_data on one value: FALSE when sanitize_string raises on a string in it
sanitize_json_data(value) ==
  IF value.t \in {"str", "list", "dict"} THEN sanitize_string(value.v).ok ELSE TRUE

\* create_temp_data_file(data, 'json'); data_ok = _sanitize_json_data did not raise.
\* The file is created first and unlinked again when writing it raises.
create_temp_data_file(data_ok, files) ==
  LET temp_path == mkstemp(files)
  IN IF data_ok
     THEN [ok |-> TRUE, path |-> temp_path, files |-> files \cup {temp_path}, made |-> {temp_path}]
     ELSE [ok |-> FALSE, path |-> <<>>, files |-> files \ {temp_path}, made |-> {temp_path}]

\* d[k] = v on a dict kept as a list of <<key, value>>
DictSet(d, k, v) ==
  IF \E i \in 1..Len(d) : d[i][1] = k
  THEN [i \in 1..Len(d) |-> IF d[i][1] = k THEN <<k, v>> ELSE d[i]]
  ELSE Append(d, <<k, v>>)

FileSuffix == <<"_", "f", "i", "l", "e">>

\* prepare_r_arguments: the loop over args.items(), prepared and the temp files so far
RECURSIVE prepare_r_arguments(_, _, _, _)
prepare_r_arguments(args, prepared, files, made) ==
  IF args = <<>>
  THEN [ok |-> TRUE, error |-> "", prepared |-> prepared, files |-> files, made |-> made]
  ELSE LET value == Head(args)[2]
           safe_key == sanitize_identifier(Head(args)[1])
           raise == [ok |-> FALSE, error |-> "RSanitizerError", prepared |-> prepared,
                     files |-> files, made |-> made]
       IN CASE value.t = "str" ->
                 IF PathExists(value.v, files) /\ IsFile(value.v, files)
                 THEN prepare_r_arguments(Tail(args), DictSet(prepared, safe_key, JStr(AbsPath(value.v))),
                                          files, made)
                 ELSE IF sanitize_string(value.v).ok
                 THEN prepare_r_arguments(Tail(args),
                                          DictSet(prepared, safe_key, JStr(sanitize_string(value.v).v)),
                                          files, made)
                 ELSE raise
            [] value.t = "num" ->
                 prepare_r_arguments(Tail(args), DictSet(prepared, safe_key, value), files, made)
            [] value.t \in {"list", "dict"} ->
                 LET temp_file == create_temp_data_file(sanitize_json_data(value), files)
                 IN IF temp_file.ok
                    THEN prepare_r_arguments(Tail(args),
                                             DictSet(prepared, safe_key \o FileSuffix, JStr(temp_file.path)),
                                             temp_file.files, made \cup temp_file.made)
                    ELSE [raise EXCEPT !.files = temp_file.files, !.made = made \cup temp_file.made]
            [] value.t = "null" ->
                 prepare_r_arguments(Tail(args), DictSet(prepared, safe_key, JNull), files, made)
            [] OTHER -> raise

\* pathlib's Path(s).suffix
Suffix(s) ==
  LET name == Basename(s)
      dots == {i \in 2..(Len(name) - 1) : name[i] = "."}
  IN IF dots = {} THEN <<>>
     ELSE SubSeq(name, CHOOSE i \in dots : \A j \in dots : j <= i, Len(name))

\* validate_r_script_path: [ok, v]; ok = FALSE stands for RSanitizerError
validate_r_script_path(script_path, files) ==
  IF ~PathExists(script_path, files) THEN [ok |-> FALSE, v |-> <<>>]
  ELSE IF ~IsFile(script_path, files) THEN [ok |-> FALSE, v |-> <<>>]
  ELSE IF ToLower(Suffix(script_path)) \notin {<<".", "r">>, <<".", "R">>} THEN [ok |-> FALSE, v |-> <<>>]
  ELSE [ok |-> TRUE,
        v |-> IF StartsWith(script_path, <<"/">>) THEN PathStr(script_path)
              ELSE Cwd \o <<"/">> \o PathStr(script_path)]

\* create_safe_r_command: the command, or what it raised, and the temp files after it
create_safe_r_command(script_path, args, files) ==
  LET safe_script == validate_r_script_path(script_path, files)
      prepared_args == prepare_r_arguments(args, <<>>, files, {})
      raise == [ok |-> FALSE, cmd |-> <<>>, files |-> files, made |-> {}]
  IN IF ~safe_script.ok THEN raise
     ELSE IF ~prepared_args.ok
     THEN [raise EXCEPT !.files = prepared_args.files, !.made = prepared_args.made]
     ELSE LET args_file ==
                create_temp_data_file(
                  \A i \in 1..Len(prepared_args.prepared) : sanitize_json_data(prepared_args.prepared[i][2]),
                  prepared_args.files)
          IN IF ~args_file.ok
             THEN [raise EXCEPT !.files = args_file.files,
                                !.made = prepared_args.made \cup args_file.made]
             ELSE [ok |-> TRUE,
                   cmd |-> <<<<"R", "s", "c", "r", "i", "p", "t">>, Vanilla, safe_script.v, args_file.path>>,
                   files |-> args_file.files,
                   made |-> prepared_args.made \cup args_file.made]

\* cleanup_temp_files: the files left after unlinking every path that exists and
\* lies under temp_dir
cleanup_temp_files(file_paths, files) ==
  files \ {p \in file_paths : PathExists(p, files) /\ StartsWith(p, temp_dir)}

\* ================================================================== security_integration.py: secure_r_execution
RCall(script_path, args, session_id, cmd) ==
  [script_path |-> script_path, args |-> args, session_id |-> session_id, cmd |-> cmd]

NoRCall == RCall(<<>>, <<>>, JNull, <<>>)

InitRExec ==
  /\ rpc = "idle"
  /\ rcall = NoRCall
  /\ safe_args = <<>>
  /\ rfiles = {}
  /\ rmade = {}
  /\ rresult = ""

\* the inputs of the calls
ScriptPaths == {<<"/", "w", "/", "s", "c", "r", "i", "p", "t", "s", "/", "m", ".", "R">>, <<"/", "w", "/", "s", "c", "r", "i", "p", "t", "s", "/", "m", ".", "p", "y">>, <<"/", "w", "/", "s", "c", "r", "i", "p", "t", "s", "/", "x", ".", "R">>}

ArgKeys == {<<"d">>, <<"1">>}

ArgValueSet == {RNum, JNull, JStr(<<"o", "k">>), JStr(<<"e", "v", "a", "l">>), RList(<<"o", "k">>), RDict(<<"l", "o", "a", "d">>), ROther}

\* the dicts of at most MaxArgs entries, as lists of <<key, value>> with distinct keys
ArgDicts ==
  UNION {{a \in [1..n -> ArgKeys \X ArgValueSet] : \A i, j \in 1..n : i # j => a[i][1] # a[j][1]} :
         n \in 0..MaxArgs}

RSessionIds == {JNull, JStr(<<"s", "e", "s", "s", "-", "0", "0", "0", "1">>), JStr(<<"b", "a", "d">>), JStr(<<"g", "e", "t", "a", "b", "c", "d", "e">>)}

\* secure_r_execution is called
RCallStart ==
  /\ rpc = "idle"
  /\ \E script_path \in ScriptPaths : \E args \in ArgDicts : \E session_id \in RSessionIds :
       rcall' = RCall(script_path, args, session_id, <<>>)
  /\ rpc' = "validate"
  /\ safe_args' = <<>>
  /\ rmade' = {}
  /\ rresult' = ""
  /\ UNCHANGED rfiles
  /\ RFrame

\* safe_script = r_sanitizer.validate_r_script_path(script_path)
RValidateScript ==
  /\ rpc = "validate"
  /\ IF validate_r_script_path(rcall.script_path, rfiles).ok
     THEN rpc' = "prepare" /\ UNCHANGED rresult
     ELSE rpc' = "raised" /\ rresult' = "RSanitizerError"
  /\ UNCHANGED <<rcall, safe_args, rfiles, rmade>>
  /\ RFrame

\* safe_args = r_sanitizer.prepare_r_arguments(args)
RPrepare ==
  /\ rpc = "prepare"
  /\ \E p \in {prepare_r_arguments(rcall.args, <<>>, rfiles, {})} :
       /\ rfiles' = p.files
       /\ rmade' = rmade \cup p.made
       /\ IF p.ok
          THEN safe_args' = p.prepared /\ rpc' = "session" /\ UNCHANGED rresult
          ELSE rpc' = "raised" /\ rresult' = p.error /\ UNCHANGED safe_args
  /\ UNCHANGED rcall
  /\ RFrame

\* if session_id: safe_args['session_id'] = input_validator.validate_session_id(session_id)
RSession ==
  /\ rpc = "session"
  /\ IF ~Truthy(rcall.session_id)
     THEN rpc' = "command" /\ UNCHANGED <<safe_args, rresult>>
     ELSE IF validate_session_id(rcall.session_id).ok
     THEN /\ safe_args' = DictSet(safe_args, <<"s", "e", "s", "s", "i", "o", "n", "_", "i", "d">>, JStr(validate_session_id(rcall.session_id).v))
          /\ rpc' = "command"
          /\ UNCHANGED rresult
     ELSE rpc' = "raised" /\ rresult' = "ValidationError" /\ UNCHANGED safe_args
  /\ UNCHANGED <<rcall, rfiles, rmade>>
  /\ RFrame

\* cmd = r_sanitizer.create_safe_r_command(safe_script, safe_args)
RCommand ==
  /\ rpc = "command"
  /\ \E c \in {create_safe_r_command(validate_r_script_path(rcall.script_path, rfiles).v,
                                     safe_args, rfiles)} :
       /\ rfiles' = c.files
       /\ rmade' = rmade \cup c.made
       /\ IF c.ok
          THEN rcall' = [rcall EXCEPT !.cmd = c.cmd] /\ rpc' = "run" /\ UNCHANGED rresult
          ELSE rpc' = "raised" /\ rresult' = "RSanitizerError" /\ UNCHANGED rcall
  /\ UNCHANGED safe_args
  /\ RFrame

\* the parameters of SecureSubprocess.run, and the keywords secure_r_execution calls it with
RunParameters == {"cmd", "input_data", "cwd", "env", "capture_output", "text", "check"}

RunKeywords == {"capture_output", "text", "timeout", "check"}

\* the try statement: secure_subprocess.run(cmd, ...), the except clauses that turn
\* what it raises into a result, and the finally clause that cleans up the values
\* of safe_args whose key ends in _file
RRun ==
  /\ rpc = "run"
  /\ \E outcome \in (IF RunKeywords \subseteq RunParameters
                     THEN {"json", "not json", "CalledProcessError", "SecureSubprocessError"}
                     ELSE {"TypeError"}) :
       rresult' = CASE outcome = "json" -> "result of the script"
                    [] outcome = "not json" -> "status success, output"
                    [] outcome = "CalledProcessError" -> "status error, R script failed"
                    [] OTHER -> "status error, " \o outcome
  /\ rfiles' = cleanup_temp_files(
                 {safe_args[i][2].v : i \in {j \in 1..Len(safe_args) : EndsWith(safe_args[j][1], FileSuffix)}},
                 rfiles)
  /\ rpc' = "returned"
  /\ UNCHANGED <<rcall, safe_args, rmade>>
  /\ RFrame

NextRExec ==
  \/ RCallStart
  \/ RValidateScript
  \/ RPrepare
  \/ RSession
  \/ RCommand
  \/ RRun

\* ================================================================== claims: interpreter wrapper
\* C8: once secure_r_execution has returned or raised, no temp file created for
\* the call (the args file, the spilled <key>_file files) exists any more.
C8_TempFilesRemoved ==
  rpc \in {"returned", "raised"} => rmade \cap rfiles = {}

\* ================================================================== file_security.py
MaxFilenameLen == 255

\* InputValidator.validate_filename: [ok, v]; ok = FALSE stands for ValidationError
InputValidator_validate_filename(filename, allowed_extensions) ==
  LET filename_str == validate_string(JStr(filename), 1, MaxFilenameLen, "filename")
  IN IF ~filename_str.ok THEN filename_str
     ELSE IF \/ Contains(filename_str.v, <<".", ".">>)
             \/ Contains(filename_str.v, <<"/">>)
             \/ Contains(filename_str.v, <<"\\">>)
     THEN [ok |-> FALSE, v |-> filename_str.v]
     ELSE IF allowed_extensions # {} /\ ToLower(Suffix(filename_str.v)) \notin allowed_extensions
     THEN [ok |-> FALSE, v |-> filename_str.v]
     ELSE filename_str

\* SecureFileHandler.ALLOWED_EXTENSIONS: the extensions, and the MIME types of each
ALLOWED_EXTENSIONS ==
  {<<".", "c", "s", "v">>, <<".", "x", "l", "s", "x">>, <<".", "x", "l", "s">>, <<".", "t", "x", "t">>, <<".", "j", "s", "o", "n">>, <<".", "r", "d", "s">>, <<".", "p", "d", "f">>, <<".", "p", "n", "g">>, <<".", "j", "p", "g">>, <<".", "j", "p", "e", "g">>}

AllowedTypes(ext) ==
  CASE ext = <<".", "c", "s", "v">> -> {"text/csv", "text/plain", "application/csv"}
    [] ext = <<".", "x", "l", "s", "x">> -> {"application/vnd.openxmlformats-officedocument.spreadsheetml.sheet"}
    [] ext = <<".", "x", "l", "s">> -> {"application/vnd.ms-excel"}
    [] ext = <<".", "t", "x", "t">> -> {"text/plain"}
    [] ext = <<".", "j", "s", "o", "n">> -> {"application/json", "text/json"}
    [] ext = <<".", "r", "d", "s">> -> {"application/octet-stream"}
    [] ext = <<".", "p", "d", "f">> -> {"application/pdf"}
    [] ext = <<".", "p", "n", "g">> -> {"image/png"}
    [] ext = <<".", "j", "p", "g">> -> {"image/jpeg"}
    [] ext = <<".", "j", "p", "e", "g">> -> {"image/jpeg"}
    [] OTHER -> {}

\* the byte 0x7f
DEL == "del"

\* SecureFileHandler.DANGEROUS_PATTERNS
FILE_DANGEROUS_PATTERNS ==
  {<<"<", "s", "c", "r", "i", "p", "t">>, <<"<", "?", "p", "h", "p">>, <<"#", "!", "/", "b", "i", "n", "/">>, <<"M", "Z">>, <<DEL, "E", "L", "F">>, <<"%", "!", "P", "S">>}

\* the first characters CSV_INJECTION_PATTERNS match after optional whitespace
CSV_INJECTION_PATTERNS == {"=", "+", "-", "@", "|"}

\* SecureFileHandler.validate_filename: [ok, v]; ok = FALSE stands for FileSecurityError
validate_filename(filename) ==
  IF filename = <<>> THEN [ok |-> FALSE, v |-> <<>>]
  ELSE LET base == Basename(filename)
       IN IF Contains(base, <<".", ".">>) \/ Contains(base, <<"/">>) \/ Contains(base, <<"\\">>)
          THEN [ok |-> FALSE, v |-> base]
          ELSE LET validated == InputValidator_validate_filename(base, ALLOWED_EXTENSIONS)
                   replaced == [i \in 1..Len(validated.v) |->
                                  IF validated.v[i] = " " THEN "_" ELSE validated.v[i]]
                   safe == SelectSeq(replaced, LAMBDA c : c \in Alnum \cup {".", "_", "-"})
               IN IF ~validated.ok THEN [ok |-> FALSE, v |-> base]
                  ELSE IF ~Contains(safe, <<".">>) THEN [ok |-> FALSE, v |-> safe]
                  ELSE [ok |-> TRUE, v |-> safe]

\* the handler's max_file_size, a parameter of its constructor
MaxFileSize == 4

\* check_file_size: TRUE when it raises FileSecurityError
check_file_size(content) == Len(content) > MaxFileSize \/ Len(content) = 0

\* detect_content_type with python-magic available: the type magic sniffs, which
\* the model carries with the uploaded file
detect_content_type(file) == file.sniffed

\* validate_content_type: TRUE when it raises FileSecurityError
validate_content_type(file, expected_ext) ==
  \/ expected_ext \notin ALLOWED_EXTENSIONS
  \/ /\ detect_content_type(file) \notin AllowedTypes(expected_ext)
     /\ expected_ext \notin {<<".", "t", "x", "t">>, <<".", "c", "s", "v">>, <<".", "r", "d", "s">>}

\* str.split('\n')
RECURSIVE SplitLines(_)
SplitLines(s) ==
  IF \A i \in 1..Len(s) : s[i] # "\n" THEN <<s>>
  ELSE LET k == CHOOSE i \in 1..Len(s) : s[i] = "\n" /\ \A j \in 1..(i - 1) : s[j] # "\n"
       IN <<SubSeq(s, 1, k - 1)>> \o SplitLines(SubSeq(s, k + 1, Len(s)))

ScanBytes == 1048576

ScanLines == 1000

\* scan_for_malware_patterns: the issues, each a pair <<kind, detail>>
scan_for_malware_patterns(name, data) ==
  LET content == SubSeq(data, 1, IF Len(data) < ScanBytes THEN Len(data) ELSE ScanBytes)
      all_lines == SplitLines(content)
      lines == SubSeq(all_lines, 1, IF Len(all_lines) < ScanLines THEN Len(all_lines) ELSE ScanLines)
  IN {<<"dangerous", pattern>> : pattern \in {p \in FILE_DANGEROUS_PATTERNS : Contains(content, p)}}
     \cup (IF Suffix(name) = <<".", "c", "s", "v">>
           THEN {<<"csv injection", <<DigitChar(i % 10)>>>> :
                   i \in {j \in 1..Len(lines) :
                            Strip(lines[j]) # <<>> /\ Strip(lines[j])[1] \in CSV_INJECTION_PATTERNS}}
           ELSE {})
     \cup (IF Suffix(name) \in {<<".", "c", "s", "v">>, <<".", "t", "x", "t">>, <<".", "j", "s", "o", "n">>} /\ Contains(ToLower(content), <<"<", "s", "c", "r", "i", "p", "t">>)
           THEN {<<"script tag", <<>>>>}
           ELSE {})

\* ------------------------------------------------------------------ file_security.py: the directories
\* paths are lists of components; the three directories of the handler
upload_dir == <<<<"t">>, <<"u", "p">>>>

quarantine_dir == <<<<"t">>, <<"q">>>>

sandbox_dir == <<<<"t">>, <<"s", "b">>>>

\* the subdirectory sandbox_process_file makes for the call in hand
sandbox_subdir == Append(sandbox_dir, <<"s", "u", "b">>)

EmptyFs == [p \in {} |-> <<>>]

\* writing and removing one file of a file system f
WriteFile(f, p, data) == [q \in DOMAIN f \cup {p} |-> IF q = p THEN data ELSE f[q]]

RemoveFile(f, p) == [q \in DOMAIN f \ {p} |-> f[q]]

\* shutil.rmtree(d, ignore_errors=True)
RmTree(f, d) == [q \in {r \in DOMAIN f : ~StrictDescendant(r, d)} |-> f[q]]

\* shutil.move(src, dst) of a file: into dst when dst is a directory (an error
\* when a file of that name is there), else a rename that replaces dst
Move(f, d, src, dst) ==
  LET real_dst == IF dst \in d THEN Append(dst, src[Len(src)]) ELSE dst
  IN IF dst \in d /\ (real_dst \in DOMAIN f \/ real_dst \in d)
     THEN [ok |-> FALSE, fs |-> f]
     ELSE [ok |-> TRUE, fs |-> WriteFile(RemoveFile(f, src), real_dst, f[src])]

\* Path.mkdir(exist_ok=True): the directories after it, or the error it raises
Mkdir(f, d, p) ==
  IF p \in d THEN [error |-> "", dirs |-> d]
  ELSE IF p \in DOMAIN f THEN [error |-> "FileExistsError", dirs |-> d]
  ELSE IF SubSeq(p, 1, Len(p) - 1) \notin d THEN [error |-> "FileNotFoundError", dirs |-> d]
  ELSE [error |-> "", dirs |-> d \cup {p}]

\* a quarantine kept inside the upload directory
QuarantineInUploads(name) == Append(upload_dir, <<"S", "U", "S", "P", "I", "C", "I", "O", "U", "S", "_">> \o name)

\* quarantine_dir / f"SUSPICIOUS_{safe_filename}"
QuarantinePath(name) == Append(quarantine_dir, <<"S", "U", "S", "P", "I", "C", "I", "O", "U", "S", "_">> \o name)

\* upload_dir / session_id
SessionDir(session_id) ==
  NormParts(SplitPath(PathJoin(JoinParts(upload_dir), session_id)), <<>>)

\* safe_filename.rsplit('.', 1), joined again around the timestamp
Timestamped(name, timestamp) ==
  LET k == CHOOSE i \in 1..Len(name) : name[i] = "." /\ \A j \in (i + 1)..Len(name) : name[j] # "."
  IN SubSeq(name, 1, k - 1) \o <<"_">> \o timestamp \o <<".">> \o SubSeq(name, k + 1, Len(name))

\* the record sandbox_process_file builds, and the keys added later
Metadata(original_name, size, content_type, status, issues, path, filename) ==
  [original_name |-> original_name, size |-> size, content_type |-> content_type,
   status |-> status, issues |-> issues, path |-> path, filename |-> filename]

NoMetadata == Metadata(<<>>, 0, "", "", {}, <<>>, <<>>)

\* the path given as file_path: the bytes stat counts, what the content sniffs as,
\* and whether the path can be opened and read (it cannot when it is a directory
\* or when the permissions forbid it)
UFile(data, sniffed, readable) == [data |-> data, sniffed |-> sniffed, readable |-> readable]

UCallOf(file, original_filename, session_id) ==
  [file |-> file, original_filename |-> original_filename, session_id |-> session_id]

NoUCall == UCallOf(UFile(<<>>, "", TRUE), <<>>, JNull)

InitUpload ==
  /\ upc = "idle"
  /\ ucall = NoUCall
  /\ safe_filename = <<>>
  /\ fs = EmptyFs
  /\ udirs = {<<<<"t">>>>, upload_dir, quarantine_dir, sandbox_dir}
  /\ fs0 = [fs |-> EmptyFs, udirs |-> {<<<<"t">>>>, upload_dir, quarantine_dir, sandbox_dir}]
  /\ metadata = NoMetadata
  /\ uresult = ""
  /\ quarantined = {}
  /\ stored = <<>>

\* ------------------------------------------------------------------ file_security.py: validate_and_store_file
MaxFiles == 2

MaxClock == 1

\* the inputs of the calls
Filenames == {<<"a", ".", "c", "s", "v">>, <<"d", "/", "a", ".", "p", "d", "f">>, <<"a", ".", "e", "x", "e">>, <<>>}

Contents == {<<>>, <<"x">>, <<"=", "1">>, <<"M", "Z">>, [i \in 1..(MaxFileSize + 1) |-> "a"]}

Sniffed == {"text/csv", "application/pdf"}

\* the readable files, and a path that stat sizes but open refuses
UFiles ==
  {UFile(data, sniffed, TRUE) : data \in Contents, sniffed \in Sniffed}
    \cup {UFile(<<"x">>, "text/csv", FALSE)}

USessionIds == {JNull, JStr(<<"s">>), JStr(<<"a", ".", "c", "s", "v">>)}

\* datetime.now().strftime('%Y%m%d_%H%M%S'): the readings of the clock
Timestamps == {<<DigitChar(n)>> : n \in 0..MaxClock}

\* every call with the inputs above
UCalls ==
  {UCallOf(file, original_filename, session_id) :
     file \in UFiles, original_filename \in Filenames, session_id \in USessionIds}

\* validate_and_store_file is called with one of calls, while fewer than limit
\* files are held and fewer than limit uploads have been stored
UCallStart(calls, limit) ==
  /\ upc \in {"idle", "returned", "raised", "cleaned"}
  /\ Cardinality(DOMAIN fs) < limit
  /\ Len(stored) < limit
  /\ \E call \in calls : ucall' = call
  /\ upc' = "filename"
  /\ safe_filename' = <<>>
  /\ fs0' = [fs |-> fs, udirs |-> udirs]
  /\ metadata' = NoMetadata
  /\ uresult' = ""
  /\ UNCHANGED <<fs, udirs, quarantined, stored>>
  /\ UFrame

\* Step 1: safe_filename = self.validate_filename(original_filename)
UFilename ==
  /\ upc = "filename"
  /\ IF validate_filename(ucall.original_filename).ok
     THEN /\ safe_filename' = validate_filename(ucall.original_filename).v
          /\ upc' = "size"
          /\ UNCHANGED uresult
     ELSE upc' = "raised" /\ uresult' = "FileSecurityError" /\ UNCHANGED safe_filename
  /\ UNCHANGED <<ucall, fs, udirs, fs0, metadata, quarantined, stored>>
  /\ UFrame

\* Step 2: file_size = self.check_file_size(file_path)
USize ==
  /\ upc = "size"
  /\ IF check_file_size(ucall.file.data)
     THEN upc' = "raised" /\ uresult' = "FileSecurityError"
     ELSE upc' = "sandbox" /\ UNCHANGED uresult
  /\ UNCHANGED <<ucall, safe_filename, fs, udirs, fs0, metadata, quarantined, stored>>
  /\ UFrame

\* Step 3: sandbox_file, metadata = self.sandbox_process_file(file_path, safe_filename),
\* called before the try: the subdirectory is made, then shutil.copy2 copies the
\* file or raises OSError, and the call raises with it
USandbox ==
  /\ upc = "sandbox"
  /\ udirs' = udirs \cup {sandbox_subdir}
  /\ IF ucall.file.readable
     THEN /\ fs' = WriteFile(fs, Append(sandbox_subdir, safe_filename), ucall.file.data)
          /\ metadata' = Metadata(safe_filename, Len(ucall.file.data), detect_content_type(ucall.file),
                                  "", {}, <<>>, <<>>)
          /\ upc' = "content"
          /\ UNCHANGED uresult
     ELSE /\ upc' = "raised"
          /\ uresult' = "OSError"
          /\ UNCHANGED <<fs, metadata>>
  /\ UNCHANGED <<ucall, safe_filename, fs0, quarantined, stored>>
  /\ UFrame

\* Step 4: self.validate_content_type(sandbox_file, ext); when it raises, the
\* finally clause removes the sandbox subdirectory
UContent ==
  /\ upc = "content"
  /\ IF validate_content_type(ucall.file, ToLower(Suffix(safe_filename)))
     THEN /\ fs' = RmTree(fs, sandbox_subdir)
          /\ udirs' = udirs \ {sandbox_subdir}
          /\ upc' = "raised"
          /\ uresult' = "FileSecurityError"
     ELSE upc' = "scan" /\ UNCHANGED <<fs, udirs, uresult>>
  /\ UNCHANGED <<ucall, safe_filename, fs0, metadata, quarantined, stored>>
  /\ UFrame

\* Step 5: issues = self.scan_for_malware_patterns(sandbox_file); with issues the
\* file is moved to quarantine, the record tagged, FileSecurityError raised, and the
\* finally clause removes the sandbox subdirectory
UScan ==
  /\ upc = "scan"
  /\ \E issues \in {scan_for_malware_patterns(safe_filename, fs[Append(sandbox_subdir, safe_filename)])} :
       IF issues # {}
       THEN /\ fs' = RmTree(Move(fs, udirs, Append(sandbox_subdir, safe_filename),
                                 QuarantinePath(safe_filename)).fs, sandbox_subdir)
            /\ udirs' = udirs \ {sandbox_subdir}
            /\ metadata' = [metadata EXCEPT !.status = "quarantined", !.issues = issues,
                                            !.path = QuarantinePath(safe_filename)]
            /\ quarantined' = quarantined \cup
                 {<<QuarantinePath(safe_filename), fs[Append(sandbox_subdir, safe_filename)]>>}
            /\ upc' = "raised"
            /\ uresult' = "FileSecurityError"
       ELSE upc' = "store" /\ UNCHANGED <<fs, udirs, metadata, uresult, quarantined>>
  /\ UNCHANGED <<ucall, safe_filename, fs0, stored>>
  /\ UFrame

\* Step 6, first half: if session_id: session_dir.mkdir(exist_ok=True); when it
\* raises, the finally clause removes the sandbox subdirectory
UStoreDir ==
  /\ upc = "store"
  /\ IF ~Truthy(ucall.session_id)
     THEN upc' = "move" /\ UNCHANGED <<fs, udirs, uresult>>
     ELSE \E m \in {Mkdir(fs, udirs, SessionDir(ucall.session_id.v))} :
            IF m.error = ""
            THEN upc' = "move" /\ udirs' = m.dirs /\ UNCHANGED <<fs, uresult>>
            ELSE /\ fs' = RmTree(fs, sandbox_subdir)
                 /\ udirs' = udirs \ {sandbox_subdir}
                 /\ upc' = "raised"
                 /\ uresult' = m.error
  /\ UNCHANGED <<ucall, safe_filename, fs0, metadata, quarantined, stored>>
  /\ UFrame

\* Step 6, second half: the unique name, shutil.move to final storage, the record
\* tagged and returned; the finally clause removes the sandbox subdirectory
UStoreMove ==
  /\ upc = "move"
  /\ \E timestamp \in Timestamps :
       LET parent == IF Truthy(ucall.session_id) THEN SessionDir(ucall.session_id.v) ELSE upload_dir
           exists == Append(parent, safe_filename) \in DOMAIN fs \cup udirs
           filename == IF exists THEN Timestamped(safe_filename, timestamp) ELSE safe_filename
           final_path == Append(parent, filename)
           moved == Move(fs, udirs, Append(sandbox_subdir, safe_filename), final_path)
       IN /\ fs' = RmTree(moved.fs, sandbox_subdir)
          /\ udirs' = udirs \ {sandbox_subdir}
          /\ IF moved.ok
             THEN /\ metadata' = [metadata EXCEPT !.status = "validated", !.path = final_path,
                                                  !.filename = filename]
                  /\ safe_filename' = filename
                  /\ stored' = Append(stored, <<final_path, fs[Append(sandbox_subdir, safe_filename)]>>)
                  /\ upc' = "returned"
                  /\ uresult' = "metadata"
             ELSE /\ upc' = "raised"
                  /\ uresult' = "shutil.Error"
                  /\ UNCHANGED <<metadata, safe_filename, stored>>
  /\ UNCHANGED <<ucall, fs0, quarantined>>
  /\ UFrame

\* cleanup_old_files(max_age_hours), between two calls: every file of the three
\* directories whose mtime lies before the cutoff is unlinked. copy2 and move
\* keep the mtime of the file the client uploaded, so any of the files may be
\* the old ones
UCleanup ==
  /\ upc \in {"idle", "returned", "raised", "cleaned"}
  /\ \E old \in SUBSET {p \in DOMAIN fs : \E directory \in {upload_dir, quarantine_dir, sandbox_dir} :
                                             StrictDescendant(p, directory)} :
       fs' = [q \in DOMAIN fs \ old |-> fs[q]]
  /\ upc' = "cleaned"
  /\ UNCHANGED <<ucall, safe_filename, udirs, fs0, metadata, uresult, quarantined, stored>>
  /\ UFrame

NextUpload(calls, limit) ==
  \/ UCallStart(calls, limit)
  \/ UFilename
  \/ USize
  \/ USandbox
  \/ UContent
  \/ UScan
  \/ UStoreDir
  \/ UStoreMove

\* uploads of one name, two of them with content the scan reports
QCalls ==
  {UCallOf(UFile(data, "text/csv", TRUE), <<"a", ".", "c", "s", "v">>, JNull) :
     data \in {<<"x">>, <<"=", "1">>, <<"M", "Z">>}}

\* uploads and cleanups on one handler
NextQuarantine ==
  \/ NextUpload(QCalls, MaxFiles)
  \/ UCleanup

\* the uploads that are stored: one name, three contents, with and without a session
StoreCalls ==
  {UCallOf(UFile(data, "text/csv", TRUE), <<"a", ".", "c", "s", "v">>, session_id) :
     data \in {<<"x">>, <<"y">>, <<"z">>}, session_id \in {JNull, JStr(<<"s">>)}}

\* ================================================================== claims: upload sandbox
\* the call in hand passed steps 1 to 3 and its sniffed content type is not among
\* the types of its extension, the extension being none of .txt, .csv, .rds
C9_Mismatch ==
  /\ metadata.original_name # <<>>
  /\ ToLower(Suffix(metadata.original_name)) \notin {<<".", "t", "x", "t">>, <<".", "c", "s", "v">>, <<".", "r", "d", "s">>}
  /\ ucall.file.sniffed \notin AllowedTypes(ToLower(Suffix(metadata.original_name)))

\* C9: when the sniffed content type of an upload conflicts with its extension
\* (other than .txt, .csv, .rds), the call raises with the sandbox copy moved into
\* the quarantine directory and the record tagged quarantined.
C9_MismatchQuarantined ==
  (upc = "raised" /\ C9_Mismatch)
  => /\ uresult = "FileSecurityError"
     /\ metadata.status = "quarantined"
     /\ QuarantinePath(metadata.original_name) \in DOMAIN fs

\* what lies under the upload directory: its files with their content, its directories
UploadDirState(f, d) ==
  [files |-> [p \in {r \in DOMAIN f : StrictDescendant(r, upload_dir)} |-> f[p]],
   dirs |-> {r \in d : StrictDescendant(r, upload_dir)}]

\* C10: when validate_and_store_file raises, and at every step of the call up to
\* the end of the malware scan, the upload directory holds exactly what it held
\* when the call began.
C10_UploadDirUnchanged ==
  upc \in {"filename", "size", "sandbox", "content", "scan", "raised"}
  => UploadDirState(fs, udirs) = UploadDirState(fs0.fs, fs0.udirs)

\* a call raised at the malware scan, with uploads of earlier calls in place
C10_Witness ==
  /\ upc = "raised"
  /\ uresult = "FileSecurityError"
  /\ metadata.status = "quarantined"
  /\ QuarantinePath(metadata.original_name) \in DOMAIN fs
  /\ DOMAIN UploadDirState(fs, udirs).files # {}

\* ================================================================== security_logger.py
\* the arguments of SecurityLogger(...): max_queue_size and batch_size
MaxQueueSize == 2

BatchSize == 2

\* the threads that call log_event, and the events logged in all
MaxCallers == 2

MaxEvents == 4

RecentMaxLen == 1000

Callers == 1..MaxCallers

\* a SecurityEvent: event_id is unique (a hash of the time and of os.urandom)
SecurityEvent(n, event_type) == [event_id |-> n, event_type |-> event_type]

NoEvent == [event_id |-> 0, event_type |-> ""]

\* the None that shutdown puts in the queue
Sentinel == [event_id |-> 0, event_type |-> "None"]

EventTypes == {"VALIDATION_FAILED"}

\* deque(maxlen=...).append
DequeAppend(d, x, maxlen) ==
  IF Len(d) < maxlen THEN Append(d, x) ELSE Append(Tail(d), x)

Ids(events) == [i \in 1..Len(events) |-> events[i].event_id]

\* SecurityLogger.__init__ has run: the writer thread is started and the
\* LOGGER_STARTED event has gone through log_event
InitLogger ==
  /\ logcalls = [c \in Callers |-> [pc |-> "idle", event |-> NoEvent]]
  /\ event_queue = <<SecurityEvent(1, "LOGGER_STARTED")>>
  /\ recent_events = <<SecurityEvent(1, "LOGGER_STARTED")>>
  /\ buffer = <<>>
  /\ wpc = "run"
  /\ logfile = <<>>
  /\ elapsed = FALSE
  /\ nEvents = 1
  /\ returned = {1}
  /\ enqueued = <<1>>
  /\ shut = "none"
  /\ atShutdown = {}

\* log_event, lines 203-214: the event is constructed and appended to recent_events
LogEventAppend(c) ==
  /\ logcalls[c].pc = "idle"
  /\ nEvents < MaxEvents
  /\ \E event_type \in EventTypes :
       LET event == SecurityEvent(nEvents + 1, event_type)
       IN /\ recent_events' = DequeAppend(recent_events, event, RecentMaxLen)
          /\ logcalls' = [logcalls EXCEPT ![c] = [pc |-> "put", event |-> event]]
  /\ nEvents' = nEvents + 1
  /\ UNCHANGED <<event_queue, buffer, wpc, logfile, elapsed, returned, enqueued, shut, atShutdown>>
  /\ LFrame

\* a faulty variant of PutNowait: a full queue loses its oldest entry
PutDropOldest(q, event) ==
  IF Len(q) >= MaxQueueSize THEN Append(Tail(q), event) ELSE Append(q, event)

\* queue.put_nowait with queue.Full caught: the queue afterwards
PutNowait(q, event) ==
  IF Len(q) >= MaxQueueSize THEN q ELSE Append(q, event)

\* log_event, lines 216-226: put_nowait, the warning when the queue is full,
\* the line for the standard logger, return event.event_id
LogEventPut(c) ==
  /\ logcalls[c].pc = "put"
  /\ event_queue' = PutNowait(event_queue, logcalls[c].event)
  /\ enqueued' = IF Len(event_queue) >= MaxQueueSize THEN enqueued
                 ELSE Append(enqueued, logcalls[c].event.event_id)
  /\ returned' = returned \cup {logcalls[c].event.event_id}
  /\ logcalls' = [logcalls EXCEPT ![c] = [pc |-> "idle", event |-> NoEvent]]
  /\ UNCHANGED <<recent_events, buffer, wpc, logfile, elapsed, nEvents, shut, atShutdown>>
  /\ LFrame

\* _write_batch: the lines appended to the log file
WriteBatch(file, events) == file \o events

\* a faulty variant of WriterFlushNow: the batch is written only when it is full
WriterFlushOnlyFull(buf, late) == Len(buf) >= BatchSize

\* _writer_loop, lines 154-155: the test made after an event joined the batch
WriterFlushNow(buf, late) == Len(buf) >= BatchSize \/ late

\* _writer_loop, one turn in which get returns an event
WriterGetEvent ==
  /\ wpc = "run"
  /\ event_queue # <<>>
  /\ Head(event_queue) # Sentinel
  /\ event_queue' = Tail(event_queue)
  /\ LET filled == Append(buffer, Head(event_queue))
     IN IF WriterFlushNow(filled, elapsed)
        THEN /\ logfile' = WriteBatch(logfile, filled)
             /\ buffer' = <<>>
             /\ elapsed' = FALSE
        ELSE /\ buffer' = filled
             /\ UNCHANGED <<logfile, elapsed>>
  /\ UNCHANGED <<logcalls, recent_events, wpc, nEvents, returned, enqueued, shut, atShutdown>>
  /\ LFrame

\* _writer_loop, the turn in which get returns None: break
WriterGetSentinel ==
  /\ wpc = "run"
  /\ event_queue # <<>>
  /\ Head(event_queue) = Sentinel
  /\ event_queue' = Tail(event_queue)
  /\ wpc' = "stopped"
  /\ UNCHANGED <<logcalls, recent_events, buffer, logfile, elapsed, nEvents, returned, enqueued, shut, atShutdown>>
  /\ LFrame

\* _writer_loop, a turn in which get raises queue.Empty after flush_interval:
\* the batch in hand is written
WriterTimeout ==
  /\ wpc = "run"
  /\ event_queue = <<>>
  /\ buffer # <<>>
  /\ logfile' = WriteBatch(logfile, buffer)
  /\ buffer' = <<>>
  /\ elapsed' = FALSE
  /\ UNCHANGED <<logcalls, event_queue, recent_events, wpc, nEvents, returned, enqueued, shut, atShutdown>>
  /\ LFrame

\* flush_interval passes since last_flush
IntervalPasses ==
  /\ ~elapsed
  /\ wpc = "run"
  /\ elapsed' = TRUE
  /\ UNCHANGED <<logcalls, event_queue, recent_events, buffer, wpc, logfile, nEvents, returned, enqueued, shut, atShutdown>>
  /\ LFrame

\* shutdown, line 411: self.event_queue.put(None), which waits for a free slot
ShutdownPut ==
  /\ shut = "none"
  /\ Len(event_queue) < MaxQueueSize
  /\ event_queue' = Append(event_queue, Sentinel)
  /\ shut' = "joining"
  /\ atShutdown' = {enqueued[i] : i \in 1..Len(enqueued)}
  /\ UNCHANGED <<logcalls, recent_events, buffer, wpc, logfile, elapsed, nEvents, returned, enqueued>>
  /\ LFrame

\* shutdown, lines 414-415: the writer is not alive, or join returns because it stopped
ShutdownJoined ==
  /\ shut = "joining"
  /\ wpc = "stopped"
  /\ shut' = "done"
  /\ UNCHANGED <<logcalls, event_queue, recent_events, buffer, wpc, logfile, elapsed, nEvents, returned, enqueued, atShutdown>>
  /\ LFrame

\* shutdown, line 415: join(timeout=5) returns while the writer still runs
ShutdownJoinTimeout ==
  /\ shut = "joining"
  /\ wpc = "run"
  /\ shut' = "done"
  /\ UNCHANGED <<logcalls, event_queue, recent_events, buffer, wpc, logfile, elapsed, nEvents, returned, enqueued, atShutdown>>
  /\ LFrame

NextLogger ==
  \/ \E c \in Callers : LogEventAppend(c)
  \/ \E c \in Callers : LogEventPut(c)
  \/ WriterGetEvent
  \/ WriterGetSentinel
  \/ WriterTimeout
  \/ IntervalPasses
  \/ ShutdownPut
  \/ ShutdownJoined
  \/ ShutdownJoinTimeout

\* the writer thread is scheduled, and get returns or times out
FairLogger == WF_vars(WriterGetEvent \/ WriterGetSentinel \/ WriterTimeout)

\* ================================================================== security_integration.py: validate_inputs
\* float() of an int of more digits than this raises OverflowError
FloatMaxDigits == 309

Digits == {"0", "1", "2", "3", "4", "5", "6", "7", "8", "9"}

DigitVal(c) == CHOOSE n \in 0..9 : DigitChar(n) = c

\* the number a string of digits denotes
RECURSIVE DigitsVal(_)
DigitsVal(s) ==
  IF s = <<>> THEN 0 ELSE 10 * DigitsVal(SubSeq(s, 1, Len(s) - 1)) + DigitVal(s[Len(s)])

\* InputValidator.validate_number(value, min_value, max_value): [ok, error, v]. float() of a
\* string of too many digits is inf, float() of such an int raises OverflowError, which the
\* except clause does not catch
validate_number(value, min_value, max_value) ==
  LET Invalid == [ok |-> FALSE, error |-> "ValidationError", v |-> value]
  IN IF value.t \notin {"str", "num"} THEN Invalid
     ELSE IF value.v = <<>> \/ ~AllIn(value.v, Digits) THEN Invalid
     ELSE IF Len(value.v) > FloatMaxDigits
          THEN IF value.t = "num" THEN [ok |-> FALSE, error |-> "OverflowError", v |-> value]
               ELSE Invalid
     ELSE LET num_value == DigitsVal(value.v)
          IN IF num_value < min_value THEN Invalid
             ELSE IF num_value > max_value THEN Invalid
             ELSE [ok |-> TRUE, error |-> "", v |-> JNum(value.v)]

\* the decorated function: def f(session_id, n=2), under
\* validate_inputs(session_id='session_id', n=('number', {'min_value': 1, 'max_value': 5}))
VParams == <<"session_id", "n">>

MinN == 1

MaxN == 5

\* param.default when the parameter has one, else None
VDefault(param_name) == IF param_name = "n" THEN JNum(<<"2">>) ELSE JNull

\* the validator configured for a parameter, applied to its value
VValidator(param_name, value) ==
  IF param_name = "session_id"
  THEN LET r == validate_session_id(value)
       IN IF r.ok THEN [ok |-> TRUE, error |-> "", v |-> JStr(r.v)]
          ELSE [ok |-> FALSE, error |-> "ValidationError", v |-> value]
  ELSE validate_number(value, MinN, MaxN)

VSessionIds ==
  {JStr(<<"s", "e", "s", "s", "i", "o", "n", "-", "0", "0", "0", "1">>),
   JStr(<<"b", "a", "d", " ", "i", "d">>), JNull}

VNumbers ==
  {JNum(<<"3">>), JNum(<<"9">>), JNum(<<"0">>), JStr(<<"4">>), JStr(<<"x">>), JNull,
   JNum([i \in 1..(FloatMaxDigits + 1) |-> "9"])}

VArgs(session_id, n) == [session_id |-> session_id, n |-> n]

NoVWrap ==
  [pc |-> "idle", strict |-> FALSE, given |-> VArgs(JNull, JNull), args |-> VArgs(JNull, JNull),
   i |-> 0, error |-> "", events |-> <<>>, invoked |-> <<>>]

\* wrapper(*args, **kwargs): sig.bind and apply_defaults; strict_mode is the configuration's
VCall ==
  /\ vwrap.pc \in {"idle", "returned", "raised"}
  /\ \E strict \in BOOLEAN, session_id \in VSessionIds, n \in VNumbers :
       vwrap' = [pc |-> "validate", strict |-> strict, given |-> VArgs(session_id, n),
                 args |-> VArgs(session_id, n), i |-> 1, error |-> "", events |-> <<>>,
                 invoked |-> <<>>]
  /\ UNCHANGED ewrap /\ WFrame

\* one turn of the loop over the validators: the validated value replaces the argument;
\* ValidationError goes to the except clause, any other exception leaves the wrapper
VValidate ==
  /\ vwrap.pc = "validate" /\ vwrap.i <= Len(VParams)
  /\ LET param_name == VParams[vwrap.i]
         r == VValidator(param_name, vwrap.args[param_name])
     IN vwrap' =
          IF r.ok
          THEN [vwrap EXCEPT !.args = [@ EXCEPT ![param_name] = r.v], !.i = @ + 1]
          ELSE IF r.error = "ValidationError"
               THEN [vwrap EXCEPT !.pc = "failed", !.error = r.error]
               ELSE [vwrap EXCEPT !.pc = "raised", !.error = r.error]
  /\ UNCHANGED ewrap /\ WFrame

\* except ValidationError: security_logger.log_input_validation_failure(field=param_name, ...)
VLog ==
  /\ vwrap.pc = "failed"
  /\ vwrap' = [vwrap EXCEPT !.pc = "logged",
                            !.events = Append(@, [event_type |-> "VALIDATION_FAILED",
                                                  field |-> VParams[vwrap.i]])]
  /\ UNCHANGED ewrap /\ WFrame

\* strict mode: raise
VStrictRaise ==
  /\ vwrap.pc = "logged" /\ vwrap.strict
  /\ vwrap' = [vwrap EXCEPT !.pc = "raised"]
  /\ UNCHANGED ewrap /\ WFrame

\* lenient mode: the parameter's default, or None, replaces the argument
VLenientDefault ==
  /\ vwrap.pc = "logged" /\ ~vwrap.strict
  /\ vwrap' = [vwrap EXCEPT !.pc = "validate", !.error = "",
                            !.args = [@ EXCEPT ![VParams[vwrap.i]] = VDefault(VParams[vwrap.i])],
                            !.i = @ + 1]
  /\ UNCHANGED ewrap /\ WFrame

\* return func(*bound_args.args, **bound_args.kwargs)
VInvoke ==
  /\ vwrap.pc = "validate" /\ vwrap.i > Len(VParams)
  /\ vwrap' = [vwrap EXCEPT !.pc = "returned", !.invoked = Append(@, vwrap.args)]
  /\ UNCHANGED ewrap /\ WFrame

NextValidate == VCall \/ VValidate \/ VLog \/ VStrictRaise \/ VLenientDefault \/ VInvoke

\* ================================================================== error_handler.py: with_error_handling
\* SessionRecoveryManager.save_session_state: writes recovery_dir/<session_id>.json; open()
\* fails when the id names a subdirectory that does not exist, and the failure is swallowed
save_session_state(files, session_id, state) ==
  IF Contains(session_id, <<"/">>) THEN files
  ELSE [f \in DOMAIN files \cup {session_id} |-> IF f = session_id THEN state ELSE files[f]]

\* SessionRecoveryManager.recover_session: <<state>>, or <<>> for None
recover_session(files, session_id) ==
  IF session_id \in DOMAIN files THEN <<files[session_id]>> ELSE <<>>

\* recovery_file.unlink() when it exists
unlink_recovery(files, session_id) == [f \in DOMAIN files \ {session_id} |-> files[f]]

\* ErrorHandler.get_user_friendly_message for the ValueError the function raises
ValueErrorMessage == "Invalid input value. Please check your data."

\* the calls of the decorated function f(value, session_id=None): the session id given by
\* keyword or by position, or not given (<<>>); the function returns or raises ValueError
ESessionIds == {<<"s", "e", "s", "s", "-", "1">>, <<"a", "/", "b">>, <<>>}

ECalls ==
  {[style |-> st, session_id |-> sid, value |-> v, raises |-> r] :
     st \in {"keyword", "positional"}, sid \in ESessionIds, v \in 1..2, r \in BOOLEAN}

\* state = {'function': ..., 'args': ..., 'kwargs': ...}
EState(call) == [function |-> "f", value |-> call.value, style |-> call.style]

NoEResult == [status |-> "none", value |-> 0, user_message |-> "", recovered_state |-> <<>>]

NoEWrap ==
  [pc |-> "idle", call |-> [style |-> "keyword", session_id |-> <<>>, value |-> 1, raises |-> FALSE],
   session_id |-> <<>>, files |-> <<>>, during |-> FALSE, result |-> NoEResult]

\* wrapper(*args, **kwargs): session_id = kwargs.get('session_id')
ECall ==
  /\ ewrap.pc \in {"idle", "returned"}
  /\ \E call \in ECalls :
       ewrap' = [ewrap EXCEPT !.pc = "save", !.call = call, !.during = FALSE,
                              !.result = NoEResult,
                              !.session_id = IF call.style = "keyword" THEN call.session_id
                                             ELSE <<>>]
  /\ UNCHANGED vwrap /\ WFrame

\* if session_id: recovery_manager.save_session_state(session_id, state)
ESave ==
  /\ ewrap.pc = "save"
  /\ ewrap' = [ewrap EXCEPT !.pc = "run",
                            !.files = IF ewrap.session_id # <<>>
                                      THEN save_session_state(@, ewrap.session_id, EState(ewrap.call))
                                      ELSE @]
  /\ UNCHANGED vwrap /\ WFrame

\* result = func(*args, **kwargs); during records whether the state of this call is on disk
\* under the id the caller gave while the function runs
ERun ==
  /\ ewrap.pc = "run"
  /\ ewrap' = [ewrap EXCEPT !.pc = IF ewrap.call.raises THEN "except" ELSE "clear",
                            !.during = recover_session(ewrap.files, ewrap.call.session_id)
                                         = <<EState(ewrap.call)>>]
  /\ UNCHANGED vwrap /\ WFrame

\* success: the recovery file of session_id is removed and the result returned
EClear ==
  /\ ewrap.pc = "clear"
  /\ ewrap' = [ewrap EXCEPT !.pc = "returned",
                            !.files = IF ewrap.session_id # <<>>
                                      THEN unlink_recovery(@, ewrap.session_id) ELSE @,
                            !.result = [NoEResult EXCEPT !.status = "success",
                                                         !.value = ewrap.call.value]]
  /\ UNCHANGED vwrap /\ WFrame

\* except Exception: the result of handle_error, with recovered_state when there is one
EExcept ==
  /\ ewrap.pc = "except"
  /\ ewrap' = [ewrap EXCEPT !.pc = "returned",
                            !.result = [status |-> "error", value |-> 0,
                                        user_message |-> ValueErrorMessage,
                                        recovered_state |->
                                          IF ewrap.session_id # <<>>
                                          THEN recover_session(ewrap.files, ewrap.session_id)
                                          ELSE <<>>]]
  /\ UNCHANGED vwrap /\ WFrame

NextRecover == ECall \/ ESave \/ ERun \/ EClear \/ EExcept

InitWrap == vwrap = NoVWrap /\ ewrap = NoEWrap

\* ================================================================== validators and sanitizers called on one string
\* ret maps the name of each function called so far on fin to its outcome
NoInput == <<"none">>

NoRet == [f \in {} |-> FALSE]

InitFun == fin = NoInput /\ ret = NoRet

\* f is called on fin and returns or raises r
Called(f, r) ==
  /\ f \notin DOMAIN ret
  /\ ret' = ret @@ (f :> r)
  /\ UNCHANGED fin

\* the strings of length 0..n over the characters of chars
RECURSIVE StringsUpTo(_, _)
StringsUpTo(chars, n) ==
  IF n = 0 THEN {<<>>}
  ELSE LET shorter == StringsUpTo(chars, n - 1)
       IN shorter \cup {s \o <<c>> : s \in shorter, c \in chars}

\* the string of n characters c
Repeat(c, n) == [i \in 1..n |-> c]

\* ------------------------------------------------------------------ session ids
\* error_handler.InputValidator.validate_session_id: bool(re.match(pattern, session_id))
EH_validate_session_id(session_id) ==
  MatchClass(session_id, Alnum \cup {"-"}, 8, 64)

MaxPad == 1

PadChars == {" ", "\n", "\t", "x"}

\* ids of the shortest and longest lengths allowed, one character more or
\* less, and ids with one character outside the class
SidCores ==
  {Repeat("a", n) : n \in {MinSessionIdLen - 1, MinSessionIdLen, MaxSessionIdLen, MaxSessionIdLen + 1}}
    \cup {<<"A", "b", "-", "0", "9", "z", "Z">> \o <<c>> : c \in {"q", "-", "_", " ", "\n", ";"}}

SidInputs ==
  {l \o c \o r : l \in StringsUpTo(PadChars, MaxPad), c \in SidCores, r \in StringsUpTo(PadChars, MaxPad)}

InitSid == InitDispatcher /\ InitExec /\ InitRExec /\ InitUpload /\ InitLogger /\ InitWrap /\ fin \in SidInputs /\ ret = NoRet

\* validators.InputValidator.validate_session_id(fin)
ValidateSessionId ==
  /\ Called("validators", validate_session_id(JStr(fin)))
  /\ FFrame

\* error_handler.InputValidator.validate_session_id(fin)
EHValidateSessionId ==
  /\ Called("error_handler", [ok |-> EH_validate_session_id(fin), v |-> fin])
  /\ FFrame

NextSid == ValidateSessionId \/ EHValidateSessionId

\* the whole of s is 8 to 64 letters, digits and hyphens
IsSessionId(s) ==
  AllIn(s, Alnum \cup {"-"}) /\ MinSessionIdLen <= Len(s) /\ Len(s) <= MaxSessionIdLen

\* C11: both validate_session_id functions accept a string exactly when the
\* string itself is 8 to 64 characters of [A-Za-z0-9-]: validators' raises
\* and error_handler's returns False on every other string, padded ids and
\* ids followed by a newline included
C11_OnlyExactIdsAccepted ==
  \A f \in DOMAIN ret : ret[f].ok <=> IsSessionId(fin)

\* ------------------------------------------------------------------ CSV content
MaxCsvContentLen == 10485760

MaxRows == 10000

\* validate_csv_content's dangerous_patterns
CsvDangerousPatterns == {"=", "@", "+", "-", "|"}

\* validators.InputValidator.validate_csv_content: [ok, v]
validate_csv_content(content, max_rows) ==
  LET checked == validate_string(content, 0, MaxCsvContentLen, "")
  IN IF ~checked.ok THEN checked
     ELSE LET str_content == checked.v
              lines == SplitLines(Strip(str_content))
              first_chars == {lines[i][1] : i \in {j \in 1..Len(lines) : lines[j] # <<>>}}
          IN IF Len(lines) > max_rows THEN [ok |-> FALSE, v |-> str_content]
             ELSE IF first_chars \cap CsvDangerousPatterns # {} THEN [ok |-> FALSE, v |-> str_content]
             ELSE [ok |-> TRUE, v |-> str_content]

MaxCsvLen == 4

CsvChars == {"a", ",", "=", "@", "|", " ", "\t", "\n"}

CsvInputs == StringsUpTo(CsvChars, MaxCsvLen)

InitCsv == InitDispatcher /\ InitExec /\ InitRExec /\ InitUpload /\ InitLogger /\ InitWrap /\ fin \in CsvInputs /\ ret = NoRet

\* validators.InputValidator.validate_csv_content(fin)
ValidateCsvContent ==
  /\ Called("csv", validate_csv_content(JStr(fin), MaxRows))
  /\ FFrame

\* some row of s has one of = + - @ | as its first character that is not whitespace
HasFormulaRow(s) ==
  \E i \in 1..Len(SplitLines(s)) :
    LET row == Strip(SplitLines(s)[i])
    IN row # <<>> /\ row[1] \in {"=", "+", "-", "@", "|"}

\* C12: validate_csv_content raises for every content with a row whose first
\* character that is not whitespace is one of = + - @ |, wherever the row is
\* and whatever whitespace comes before that character
C12_FormulaRowRaises ==
  "csv" \in DOMAIN ret /\ HasFormulaRow(fin) => ~ret["csv"].ok

\* ------------------------------------------------------------------ sanitize_string
MaxTokens == 3

\* pieces of input: plain text, the characters sanitize_for_r removes, the
\* operators of R_CODE_PATTERNS and names of DANGEROUS_R_FUNCTIONS
SanTokens ==
  {<<"a">>, <<" ">>, <<"'">>, <<"\\">>, <<"$">>, <<"(">>, <<BT>>, <<"<", "<", "-">>, <<"-", ">", ">">>,
   <<":", ":", ":">>, <<".">>, <<"g", "e">>, <<"t">>, <<"r", "e", "a", "d", "L", "i", "n", "e", "s">>,
   <<"S", "Y", "S", "T", "E", "M">>}

RECURSIVE TokenStrings(_)
TokenStrings(n) ==
  IF n = 0 THEN {<<>>}
  ELSE LET shorter == TokenStrings(n - 1)
       IN shorter \cup {s \o t : s \in shorter, t \in SanTokens}

\* inputs one character longer than the limit of sanitize_for_r
LongInputs ==
  {Repeat("a", MaxSanitizedLen - 2) \o t : t \in {<<" ", "b", "c">>, <<"'", " ", "b">>}}

SanInputs == TokenStrings(MaxTokens) \cup LongInputs

InitSan == InitDispatcher /\ InitExec /\ InitRExec /\ InitUpload /\ InitLogger /\ InitWrap /\ fin \in SanInputs /\ ret = NoRet

\* RScriptSanitizer.sanitize_string(fin)
SanitizeString ==
  /\ Called("sanitize_string", sanitize_string(fin))
  /\ FFrame

\* RScriptSanitizer.sanitize_string called on the value the first call returned
SanitizeAgain ==
  /\ "sanitize_string" \in DOMAIN ret
  /\ ret["sanitize_string"].ok
  /\ Called("again", sanitize_string(ret["sanitize_string"].v))
  /\ FFrame

NextSan == SanitizeString \/ SanitizeAgain

\* s contains a name of DANGEROUS_R_FUNCTIONS, a backtick execution, $( ,
\* <<- , ->> or :::
HasInjection(s) ==
  \/ \E func \in DANGEROUS_R_FUNCTIONS : Contains(s, func)
  \/ BacktickPattern(s)
  \/ Contains(s, <<"$", "(">>)
  \/ Contains(s, <<"<", "<", "-">>)
  \/ Contains(s, <<"-", ">", ">">>)
  \/ Contains(s, <<":", ":", ":">>)

\* C13: sanitize_string raises RSanitizerError for every input that contains
\* a denylisted built-in or one of the code-injection patterns; it never
\* returns what is left of such an input after stripping characters
C13_InjectionRaises ==
  "sanitize_string" \in DOMAIN ret /\ HasInjection(fin) => ~ret["sanitize_string"].ok

\* C14: sanitize_string is idempotent: when sanitize_string(s) returns,
\* sanitize_string of the returned value returns too, and returns that value
C14_Idempotent ==
  "again" \in DOMAIN ret =>
    ret["again"].ok /\ ret["again"].v = ret["sanitize_string"].v

\* the second call has returned for an input that the first call changed:
\* characters were removed, the text was cut at the limit or stripped
C14_Witness ==
  /\ "again" \in DOMAIN ret
  /\ ret["sanitize_string"].v # fin
  /\ ret["sanitize_string"].v # <<>>
  /\ \E i \in 1..Len(fin) : fin[i] \in {"'", "\\"}

\* ------------------------------------------------------------------ the interpreter's output
MaxStdoutLen == 3

\* the characters of the interpreter's stdout: braces, a letter, a blank, a digit
JsonChars == {"{", "}", "x", " ", "1"}

\* what a finished interpreter process hands back: communicate() ran into the
\* timeout or not, the exit status, and the two streams
Proc(timeout, returncode, out, err) ==
  [timeout |-> timeout, returncode |-> returncode, stdout |-> out, stderr |-> err]

\* a decoded JSON value; on the texts over JsonChars json.loads knows the empty
\* object and the integers, with blanks around the value and inside the braces
json_loads(s) ==
  LET t == Strip(s)
  IN IF Len(t) >= 2 /\ t[1] = "{" /\ t[Len(t)] = "}" /\ (\A i \in 2..(Len(t) - 1) : t[i] = " ")
     THEN [ok |-> TRUE, v |-> [t |-> "obj", v |-> <<>>]]
     ELSE IF t # <<>> /\ AllIn(t, {"1"})
     THEN [ok |-> TRUE, v |-> [t |-> "num", v |-> t]]
     ELSE [ok |-> FALSE, v |-> [t |-> "JSONDecodeError", v |-> <<>>]]

\* what a gateway returns: the decoded value of stdout, or a dict it builds
\* itself; a key that is not set is <<>>, a key that is set is <<text>>
Reply(value, status, message, error) ==
  [value |-> value, status |-> status, message |-> message, error |-> error,
   stderr |-> <<>>, stdout |-> <<>>, raw_output |-> <<>>, raw |-> <<>>]

NoValue == [t |-> "none", v |-> <<>>]

\* a faulty variant of execute_r_communicate: stderr is attached whatever DEBUG_R is
execute_r_communicate_stderr(p, debug) ==
  IF p.timeout THEN Reply(NoValue, "error", "R script execution timed out", <<>>)
  ELSE IF p.returncode # 0 THEN
       [Reply(NoValue, "error", "R script failed to execute.", <<>>)
          EXCEPT !.stderr = <<Strip(p.stderr)>>, !.stdout = <<Strip(p.stdout)>>]
  ELSE IF json_loads(Strip(p.stdout)).ok THEN Reply(json_loads(Strip(p.stdout)).v, "", "", <<>>)
  ELSE [Reply(NoValue, "error", "Invalid JSON from R", <<>>)
          EXCEPT !.raw_output = <<Strip(p.stdout)>>, !.stderr = <<Strip(p.stderr)>>]

\* server.py lines 99-124: execute_r from proc.communicate on
execute_r_communicate(p, debug) ==
  IF p.timeout THEN Reply(NoValue, "error", "R script execution timed out", <<>>)
  ELSE IF p.returncode # 0 THEN
       [Reply(NoValue, "error", "R script failed to execute.", <<>>)
          EXCEPT !.stderr = IF debug THEN <<Strip(p.stderr)>> ELSE <<>>,
                 !.stdout = IF debug THEN <<Strip(p.stdout)>> ELSE <<>>]
  ELSE IF json_loads(Strip(p.stdout)).ok THEN Reply(json_loads(Strip(p.stdout)).v, "", "", <<>>)
  ELSE [Reply(NoValue, "error", "Invalid JSON from R", <<>>)
          EXCEPT !.raw_output = <<Strip(p.stdout)>>,
                 !.stderr = IF debug THEN <<Strip(p.stderr)>> ELSE <<>>]

\* output.find('{'): the index of the first brace, 0 when there is none
FindBrace(s) ==
  IF \E i \in 1..Len(s) : s[i] = "{"
  THEN CHOOSE i \in 1..Len(s) : s[i] = "{" /\ \A j \in 1..(i - 1) : s[j] # "{"
  ELSE 0

\* server_fastmcp.py lines 62-79: call_r_tool from process.communicate on; the
\* second json.loads stands in the except clause, what it raises leaves the function
call_r_tool_communicate(p) ==
  IF p.returncode # 0 THEN
       [ok |-> TRUE,
        v |-> Reply(NoValue, "error", "", IF p.stderr # <<>> THEN p.stderr ELSE <<"R script failed">>)]
  ELSE IF json_loads(p.stdout).ok THEN [ok |-> TRUE, v |-> Reply(json_loads(p.stdout).v, "", "", <<>>)]
  ELSE LET json_start == FindBrace(p.stdout)
       IN IF json_start >= 1 THEN
               LET rest == json_loads(SubSeq(p.stdout, json_start, Len(p.stdout)))
               IN IF rest.ok THEN [ok |-> TRUE, v |-> Reply(rest.v, "", "", <<>>)]
                  ELSE [ok |-> FALSE, v |-> Reply(rest.v, "", "", <<>>)]
          ELSE [ok |-> TRUE,
                v |-> [Reply(NoValue, "error", "", <<"Invalid R output">>) EXCEPT !.raw = <<p.stdout>>]]

Stderrs == {<<>>, <<"e">>}

\* two runs of the interpreter that differ at most in stderr, and the DEBUG_R of
\* the environment
ProcInputs ==
  {[proc |-> Proc(timeout, returncode, out, err), other_stderr |-> other, debug |-> debug] :
     timeout \in BOOLEAN, returncode \in {0, 1}, out \in StringsUpTo(JsonChars, MaxStdoutLen),
     err \in Stderrs, other \in Stderrs, debug \in BOOLEAN}

InitProc == InitDispatcher /\ InitExec /\ InitRExec /\ InitUpload /\ InitLogger /\ InitWrap /\ fin \in ProcInputs /\ ret = NoRet

\* execute_r reads the output of its interpreter
ExecuteRCommunicate ==
  /\ Called("execute_r", execute_r_communicate(fin.proc, fin.debug))
  /\ FFrame

\* the same execution with the other stderr
ExecuteRCommunicateOther ==
  /\ Called("execute_r_other",
            execute_r_communicate([fin.proc EXCEPT !.stderr = fin.other_stderr], fin.debug))
  /\ FFrame

\* call_r_tool reads the output of its interpreter; it waits without a timeout
CallRToolCommunicate ==
  /\ ~fin.proc.timeout
  /\ Called("call_r_tool", call_r_tool_communicate(fin.proc))
  /\ FFrame

NextProc == ExecuteRCommunicate \/ ExecuteRCommunicateOther \/ CallRToolCommunicate

\* ================================================================== claims: the interpreter's output
\* C22: with DEBUG_R unset, two executions that differ only in the interpreter's
\* stderr get the same response, whatever the exit status, the stdout and the timeout
C22_StderrWithheld ==
  (~fin.debug /\ "execute_r" \in DOMAIN ret /\ "execute_r_other" \in DOMAIN ret)
    => ret["execute_r"] = ret["execute_r_other"]

\* both executions returned, DEBUG_R unset, after a non-zero exit with different stderr
C22_Witness ==
  /\ ~fin.debug
  /\ "execute_r" \in DOMAIN ret /\ "execute_r_other" \in DOMAIN ret
  /\ fin.proc.stderr # fin.other_stderr
  /\ ~fin.proc.timeout /\ fin.proc.returncode # 0

\* stdout is a preamble without a brace followed by one JSON object
PreambleJson(s) ==
  /\ FindBrace(s) > 1
  /\ Strip(SubSeq(s, 1, FindBrace(s) - 1)) # <<>>
  /\ json_loads(SubSeq(s, FindBrace(s), Len(s))).ok

\* no part of stdout from a brace on decodes as a JSON object
NoJsonObject(s) ==
  \A i \in 1..Len(s) : s[i] = "{" => ~json_loads(SubSeq(s, i, Len(s))).ok

\* C26: after exit 0 a preamble followed by one JSON object gives that object as
\* the result, and a stdout with no JSON object in it gives an error result
\* without raising, in both gateways
C26_PreambleTolerated ==
  (~fin.proc.timeout /\ fin.proc.returncode = 0) =>
    /\ "execute_r" \in DOMAIN ret =>
         /\ PreambleJson(fin.proc.stdout) =>
              ret["execute_r"].value = json_loads(SubSeq(fin.proc.stdout, FindBrace(fin.proc.stdout), Len(fin.proc.stdout))).v
         /\ (NoJsonObject(fin.proc.stdout) /\ ~json_loads(fin.proc.stdout).ok) =>
              ret["execute_r"].status = "error"
    /\ "call_r_tool" \in DOMAIN ret =>
         /\ PreambleJson(fin.proc.stdout) =>
              ret["call_r_tool"].ok /\
              ret["call_r_tool"].v.value = json_loads(SubSeq(fin.proc.stdout, FindBrace(fin.proc.stdout), Len(fin.proc.stdout))).v
         /\ (NoJsonObject(fin.proc.stdout) /\ ~json_loads(fin.proc.stdout).ok) =>
              ret["call_r_tool"].ok /\ ret["call_r_tool"].v.status = "error"

\* ------------------------------------------------------------------ validators.py: validate_enum
\* ALLOWED_VALUES
ALLOWED_VALUES ==
  [
   study_type |-> {<<"c","l","i","n","i","c","a","l","_","t","r","i","a","l">>, <<"o","b","s","e","r","v","a","t","i","o","n","a","l">>, <<"d","i","a","g","n","o","s","t","i","c">>},
   effect_measure |-> {<<"O","R">>, <<"R","R">>, <<"M","D">>, <<"S","M","D">>, <<"H","R">>, <<"P","R","O","P">>, <<"M","E","A","N">>},
   analysis_model |-> {<<"f","i","x","e","d">>, <<"r","a","n","d","o","m">>, <<"a","u","t","o">>},
   data_format |-> {<<"c","s","v">>, <<"e","x","c","e","l">>, <<"r","e","v","m","a","n">>},
   validation_level |-> {<<"b","a","s","i","c">>, <<"c","o","m","p","r","e","h","e","n","s","i","v","e">>},
   plot_style |-> {<<"c","l","a","s","s","i","c">>, <<"m","o","d","e","r","n">>, <<"j","o","u","r","n","a","l","_","s","p","e","c","i","f","i","c">>},
   report_format |-> {<<"h","t","m","l">>, <<"p","d","f">>, <<"w","o","r","d">>},
   file_extension |-> {<<".","c","s","v">>, <<".","x","l","s","x">>, <<".","x","l","s">>, <<".","r","d","s">>, <<".","p","n","g">>, <<".","j","p","g">>, <<".","p","d","f">>},
   bias_methods |-> {<<"f","u","n","n","e","l","_","p","l","o","t">>, <<"e","g","g","e","r","_","t","e","s","t">>, <<"b","e","g","g","_","t","e","s","t">>, <<"t","r","i","m","_","f","i","l","l">>}
  ]

\* InputValidator.validate_enum(value, enum_name), value a string
validate_enum(value, enum_name) ==
  IF enum_name \notin DOMAIN ALLOWED_VALUES THEN [ok |-> FALSE, v |-> <<"Unknown enum type">>]
  ELSE LET str_value == IF value # <<>> THEN ToLower(value) ELSE <<>>
           allowed == ALLOWED_VALUES[enum_name]
       IN IF str_value \notin allowed THEN [ok |-> FALSE, v |-> str_value]
          ELSE [ok |-> TRUE, v |-> str_value]

\* every member of every vocabulary, its lower case, and a few other strings
EnumValues ==
  UNION {ALLOWED_VALUES[e] \cup {ToLower(m) : m \in ALLOWED_VALUES[e]} : e \in DOMAIN ALLOWED_VALUES}
    \cup {<<>>, <<"x">>, <<"C","S","V">>, <<"F","i","x","e","d">>, <<"o","r"," ">>}

EnumNames == DOMAIN ALLOWED_VALUES \cup {"unknown", ""}

InitEnum ==
  /\ InitDispatcher /\ InitExec /\ InitRExec /\ InitUpload /\ InitLogger /\ InitWrap
  /\ fin \in [value : EnumValues, enum_name : EnumNames]
  /\ ret = NoRet

\* InputValidator.validate_enum(fin.value, fin.enum_name)
ValidateEnum ==
  /\ Called("validate_enum", validate_enum(fin.value, fin.enum_name))
  /\ FFrame

\* ================================================================== claims: validate_enum
\* value equals, ignoring case, a member of the vocabulary registered under enum_name
IsMember(value, enum_name) ==
  /\ enum_name \in DOMAIN ALLOWED_VALUES
  /\ \E m \in ALLOWED_VALUES[enum_name] : ToLower(m) = ToLower(value)

\* C24: validate_enum accepts a value exactly when it equals, ignoring case, a
\* member of the vocabulary registered under enum_name, the effect measures
\* included, and raises for an unknown enum_name and for every other value
C24_AcceptsMembers ==
  "validate_enum" \in DOMAIN ret =>
    (ret["validate_enum"].ok <=> IsMember(fin.value, fin.enum_name))

\* ------------------------------------------------------------------ sanitize_arguments called on one list
\* the argument lists tried: every one-element list, and pairs of a few arguments
FewArgs == {<<"a">>, <<"a", ";">>, <<".", ".", "/", "a">>, <<"a", "/", ".", ".">>, <<"/", "/">>}

ArgLists == {<<a>> : a \in ArgStrings} \cup {<<a, b>> : a \in FewArgs, b \in FewArgs}

InitArgs == InitDispatcher /\ InitExec /\ InitRExec /\ InitUpload /\ InitLogger /\ InitWrap /\ fin \in ArgLists /\ ret = NoRet

\* SecureSubprocess.sanitize_arguments(fin); nothing it raises leaves the function
SanitizeArguments ==
  /\ Called("sanitize_arguments", [ok |-> TRUE, v |-> sanitize_arguments(fin)])
  /\ FFrame

\* ================================================================== claims: sanitize_arguments
\* arg holds a / or a \ and one of its path components is ..
TraversalArg(arg) ==
  /\ Contains(Strip(arg), <<"/">>) \/ Contains(Strip(arg), <<"\\">>)
  /\ \E i \in 1..Len(PathParts(Strip(arg))) : PathParts(Strip(arg))[i] = <<".", ".">>

\* C25: sanitize_arguments raises SecureSubprocessError when some path-like
\* argument has a .. component and returns no list then; otherwise it returns
\* the shell-escaped arguments in their order
C25_TraversalRaises ==
  "sanitize_arguments" \in DOMAIN ret =>
    IF \E i \in 1..Len(fin) : TraversalArg(fin[i])
    THEN ~ret["sanitize_arguments"].ok
    ELSE /\ ret["sanitize_arguments"].ok
         /\ Len(ret["sanitize_arguments"].v) = Len(fin)
         /\ \A i \in 1..Len(fin) :
              ret["sanitize_arguments"].v[i] \in
                {shlex_quote(Strip(fin[i])), shlex_quote(PathStr(Strip(fin[i])))}

\* ================================================================== claims: security events of the dispatcher
\* a response that rejects a tools/call for a security reason: the tool is
\* not whitelisted, the session_id is invalid, the session path is outside
\* the allowed root
SecurityRejection(r) ==
  \/ r.kind = "error" /\ r.code = -32601 /\ r.message = "Unknown tool"
  \/ /\ r.kind = "result" /\ r.result.status = "error"
     /\ r.result.message \in {"Invalid tool name", "Invalid session_id", "Invalid session path"}

\* C15: when the dispatcher writes the error response of a tools/call that it
\* rejected for a security reason, at least one SecurityEvent has been
\* recorded for it (an event besides the LOGGER_STARTED of the logger itself)
C15_RejectionLogged ==
  \A i \in 1..Len(stdout) :
    SecurityRejection(stdout[i]) =>
      \E j \in 1..Len(recent_events) : recent_events[j].event_type # "LOGGER_STARTED"

\* ================================================================== claims: security logger
FileIds == {logfile[i].event_id : i \in 1..Len(logfile)}

\* C16: once shutdown() has completed and the writer thread has stopped, every
\* event that was put in the queue before shutdown was called is in the log
\* file: none is lost in the writer's batch when the None is taken
C16_ShutdownFlushes ==
  shut = "done" /\ wpc = "stopped" => atShutdown \subseteq FileIds

\* a caller's put finds the queue holding max_queue_size entries
C17_FullPut(c) ==
  /\ logcalls[c].pc = "put"
  /\ logcalls'[c].pc = "idle"
  /\ Len(event_queue) = MaxQueueSize

\* the put on a full queue leaves the queue as it is, the event is in
\* recent_events and its id is returned
C17_DropStep ==
  \A c \in Callers :
    C17_FullPut(c) =>
      /\ event_queue' = event_queue
      /\ \E i \in 1..Len(recent_events') : recent_events'[i] = logcalls[c].event
      /\ logcalls[c].event.event_id \in returned'

\* entries leave the queue only at its head and only into the writer thread:
\* into its batch, into the file with its batch, or as the None that stops it
C17_WriterConsumes ==
  event_queue' # event_queue /\ Len(event_queue') <= Len(event_queue) =>
    /\ wpc = "run"
    /\ event_queue' = Tail(event_queue)
    /\ \/ Head(event_queue) = Sentinel /\ wpc' = "stopped"
       \/ buffer' = Append(buffer, Head(event_queue))
       \/ logfile' = logfile \o Append(buffer, Head(event_queue))

C18_InOrderOnce ==
  /\ Len(logfile) <= Len(enqueued)
  /\ Ids(logfile) = SubSeq(enqueued, 1, Len(logfile))

\* a turn of the writer that takes an event writes the batch when the batch
\* is full or flush_interval has passed since the last flush
C18_FlushStep ==
  (/\ wpc = "run" /\ wpc' = "run"
   /\ event_queue # <<>> /\ event_queue' = Tail(event_queue)
   /\ Len(buffer) + 1 >= BatchSize \/ elapsed)
  => /\ buffer' = <<>>
     /\ logfile' = logfile \o Append(buffer, Head(event_queue))

C19_Added ==
  /\ xpc = "popen_thread" => CurPid \in tracked
  /\ \A p \in Pids : mon[p] \in {"poll", "grace", "cleanup", "locked"} => p \in tracked

\* the table changes only in a step of the thread that holds the lock, which
\* adds or removes that thread's own pid and releases the lock
C19_UnderLock ==
  tracked' # tracked =>
    /\ lock' = <<>>
    /\ \/ lock = <<"popen">> /\ xpc = "popen_locked" /\ tracked' = tracked \cup {CurPid}
       \/ \E p \in Pids : lock = <<"monitor", p>> /\ mon[p] = "locked" /\ tracked' = tracked \ {p}

\* at most one thread is between acquiring and releasing the lock
C19_OneHolder ==
  Cardinality({p \in Pids : mon[p] = "locked"}) + (IF xpc = "popen_locked" THEN 1 ELSE 0)
    = (IF lock = <<>> THEN 0 ELSE 1)

C20_SandboxRemoved ==
  upc \in {"returned", "raised"} =>
    /\ sandbox_subdir \notin udirs
    /\ \A f \in DOMAIN fs : ~StrictDescendant(f, sandbox_subdir)

\* ================================================================== claims: quarantine and storage
\* C21: a file placed in the quarantine directory stays there with its original
\* content, whatever uploads and cleanups follow
C21_QuarantineRetained ==
  \A q \in quarantined : q[1] \in DOMAIN fs /\ fs[q[1]] = q[2]

\* the most files the storage specification holds
MaxStores == 3

\* C29: every storage_path returned by a successful upload still holds the
\* content stored under it, and no two returned storage_paths are equal
C29_StoredKept ==
  /\ \A i \in 1..Len(stored) : stored[i][1] \in DOMAIN fs /\ fs[stored[i][1]] = stored[i][2]
  /\ \A i, j \in 1..Len(stored) : i # j => stored[i][1] # stored[j][1]

\* ================================================================== claims: session initialisation
\* the directories of a session
SessionSubdirs == {<<"i", "n", "p", "u", "t">>, <<"p", "r", "o", "c", "e", "s", "s", "i", "n", "g">>,
                   <<"r", "e", "s", "u", "l", "t", "s">>, <<"t", "m", "p">>}

\* the response in hand answers a tools/call of initialize_meta_analysis whose
\* arguments are an object without session_id
C23_InitCall ==
  /\ pc = "write"
  /\ req.t = "obj" /\ req.method = "tools/call"
  /\ CallName(req) = JStr(T_initialize_meta_analysis)
  /\ CallArguments(req).t = "obj" /\ CallArguments(req).session_id.t = "absent"

\* C23: the response to initialize_meta_analysis without session_id carries a
\* session_id of 8 to 64 letters, digits and hyphens, the interpreter was started
\* with that id in its arguments, and the four directories of the session exist
\* when the response is written
C23_SessionCreated ==
  C23_InitCall =>
    /\ resp.kind = "result"
    /\ resp.result.session_id.t = "str"
    /\ MatchClass(resp.result.session_id.v, Alnum \cup {"-"}, MinSessionIdLen, MaxSessionIdLen)
    /\ Len(er.out.argv) = 1
    /\ er.args.session_id = resp.result.session_id
    /\ \A sub \in SessionSubdirs :
         MakeDirs(PathJoin(PathJoin(sessions_root, resp.result.session_id.v), sub))
           \subseteq created \cup InitialDirs

\* ================================================================== claims: one response per request
\* a step that consumes a line without accepting it changes nothing else; the
\* step taken for a request that is a JSON object computes its response, with
\* the id of the request and a result or an error; a step that writes appends
\* that one line
C30_Step ==
  /\ (nRead' # nRead /\ accepted' = accepted) =>
       UNCHANGED <<pc, req, resp, stdout, created, spawned, leftFiles, uuids, er>>
  /\ (pc = "dispatch" /\ req.t = "obj") =>
       /\ pc' = "write"
       /\ resp'.id = req.id
       /\ resp'.kind \in {"result", "error"}
  /\ stdout' # stdout =>
       /\ stdout' = Append(stdout, resp)
       /\ resp.id = req.id
       /\ resp.kind \in {"result", "error"}

\* C30: every line that parses as a JSON object gets exactly one response line,
\* with the id of the request and either a result or an error; an empty line or
\* a line that is not JSON gets none and changes no state
C30_OneResponse ==
  /\ [][C30_Step]_vars
  /\ [](Len(stdout) <= Len(accepted))

\* ================================================================== claims: validate_inputs
VFailing(given) ==
  {p \in {"session_id", "n"} : ~VValidator(p, given[p]).ok}

\* C27: when a configured parameter fails validation the failure is logged as a
\* VALIDATION_FAILED event; in strict mode the error propagates and the function is not
\* invoked; in lenient mode the function is invoked once, with the parameter's default (None
\* when it has none) in place of every failing value, never with the invalid value
C27_ValidateInputs ==
  vwrap.pc \in {"returned", "raised"} /\ VFailing(vwrap.given) # {} =>
    /\ \E k \in 1..Len(vwrap.events) :
         /\ vwrap.events[k].event_type = "VALIDATION_FAILED"
         /\ vwrap.events[k].field \in VFailing(vwrap.given)
    /\ vwrap.strict => vwrap.pc = "raised" /\ vwrap.error = "ValidationError" /\ vwrap.invoked = <<>>
    /\ ~vwrap.strict =>
         /\ vwrap.pc = "returned" /\ Len(vwrap.invoked) = 1
         /\ \A p \in VFailing(vwrap.given) : vwrap.invoked[1][p] = VDefault(p)
         /\ {vwrap.events[k].field : k \in 1..Len(vwrap.events)} = VFailing(vwrap.given)

\* ================================================================== claims: with_error_handling
\* C28: for a call that carries a session_id, the state is saved before the function runs;
\* when the function returns, its result is returned unchanged and the recovery file is gone;
\* when it raises, the wrapper returns an error result with a user message, the recovery file
\* remains and recover_session gives back the saved state
C28_RecoveryState ==
  ewrap.pc = "returned" /\ ewrap.call.session_id # <<>> =>
    /\ ewrap.during
    /\ ~ewrap.call.raises =>
         /\ ewrap.result = [NoEResult EXCEPT !.status = "success", !.value = ewrap.call.value]
         /\ recover_session(ewrap.files, ewrap.call.session_id) = <<>>
    /\ ewrap.call.raises =>
         /\ ewrap.result.status = "error" /\ ewrap.result.user_message # ""
         /\ recover_session(ewrap.files, ewrap.call.session_id) = <<EState(ewrap.call)>>

\* ================================================================== specifications
InitAll == InitDispatcher /\ InitExec /\ InitRExec /\ InitUpload /\ InitFun /\ InitLogger /\ InitWrap

\* the dispatcher process, or an importer of server.py
SpecDispatcher == InitAll /\ [][NextDispatcher]_vars

\* the executor called with every command of Commands
SpecExec == InitAll /\ [][NextExec(Commands)]_vars

\* the lifecycle of the children, with the fairness of threads and the OS
FairSpecExec ==
  /\ InitAll
  /\ [][NextExec(FewCommands)]_vars
  /\ FairExec

\* one call of secure_r_execution, with every input of the sets above
SpecRExec == InitAll /\ [][NextRExec]_vars

\* calls of validate_and_store_file on one handler, one after the other
SpecUpload == InitAll /\ [][NextUpload(UCalls, MaxFiles)]_vars

\* uploads of one name, clean and suspicious, and cleanup_old_files between them
SpecQuarantine == InitAll /\ [][NextQuarantine]_vars

\* uploads that pass every check, up to MaxStores files held
SpecStore == InitAll /\ [][NextUpload(StoreCalls, MaxStores)]_vars

\* the two validate_session_id functions called on one string
SpecSid == InitSid /\ [][NextSid]_vars

\* validate_csv_content called on one string
SpecCsv == InitCsv /\ [][ValidateCsvContent]_vars

\* sanitize_string called on one string, and again on what it returned
SpecSan == InitSan /\ [][NextSan]_vars

\* the security logger: callers of log_event, the writer thread, shutdown
SpecLogger == InitAll /\ [][NextLogger]_vars

\* the security logger with its writer thread scheduled
FairSpecLogger ==
  /\ InitAll
  /\ [][NextLogger]_vars
  /\ FairLogger

\* the output handling of execute_r and call_r_tool, on one finished interpreter
SpecProc == InitProc /\ [][NextProc]_vars

\* validate_enum called on one value and one vocabulary name
SpecEnum == InitEnum /\ [][ValidateEnum]_vars

\* sanitize_arguments called on one argument list
SpecArgs == InitArgs /\ [][SanitizeArguments]_vars


SpecValidate == InitAll /\ [][NextValidate]_vars

SpecRecover == InitAll /\ [][NextRecover]_vars

====
